---- MODULE Spec2Model ----
(***************************************************************************)
(* A model of lzma-rust2: the multi-threaded LZMA2 writer                  *)
(* (src/src/enc/lzma2_writer_mt.rs), the LZMA2 chunk framing it drives     *)
(* (src/src/enc/lzma2_writer.rs) and the raw LZMA writer / reader pair     *)
(* (src/src/enc/lzma_writer.rs, src/src/lzma_reader.rs).                   *)
(***************************************************************************)
EXTENDS Integers, Sequences, FiniteSets, TLC

(***************************************************************************)
(* Bounds of the model.  Sizes are scaled: the program's stream size is at *)
(* least 262144 bytes and its chunk limit is 65536 bytes.                  *)
(***************************************************************************)
\* cap on the number of work units a run of whole-unit writes dispatches
MaxBulkUnits == 5
\* effective stream_size of the modelled writer, in bytes
StreamSize == 4
\* cap on the number of work units a run of arbitrary writes dispatches
MaxUnits == 3
\* COMPRESSED_SIZE_MAX of lzma2_writer.rs (64 << 10 there), scaled
COMPRESSED_SIZE_MAX == 4

\* the literal 4 of `while self.work_queue.len() >= 4`
QUEUE_LIMIT == 4

\* the num_workers values passed to new
WorkerRequests == {0, 2}
\* lengths of the buffers handed to write
BufSizes == {0, 2, StreamSize + 1}

Min(a, b) == IF a < b THEN a ELSE b
Max(a, b) == IF a > b THEN a ELSE b

None == [none |-> TRUE]

VARIABLES
  \* ---- LZMA2WriterMT (fields of the struct) ----
  inner,                      \* the sink: the sequence of buffers written with write_all
  current_work_unit,          \* Vec<u8>: bytes accepted but not yet dispatched
  stream_size,
  next_sequence_to_dispatch,
  next_sequence_to_write,
  last_sequence_id,           \* Option<u64>
  out_of_order_chunks,        \* BTreeMap<u64, Vec<u8>>
  shutdown_flag,              \* Arc<AtomicBool>
  error_store,                \* Arc<Mutex<Option<io::Error>>>
  state,                      \* State
  work_queue,                 \* WorkStealingQueue<WorkUnit>: queued units
  queue_closed,               \* WorkStealingQueue: closed flag
  result_ch,                  \* mpsc channel of ResultUnit: messages in flight
  rx_alive,                   \* result_rx not yet dropped
  \* ---- threads ----
  workers,                    \* position and work unit of each worker thread
  ctl,                        \* position of the caller's thread inside write/flush/finish
  ret,                        \* what the last completed call returned
  enc_profile,                \* how the LZMA encoder behaves on the input of this run
  caller,                     \* what the caller of this run does: buffer sizes, units
  \* ---- history ----
  dispatched,                 \* the work units pushed, in push order
  first_error,                \* the first error a worker reported
  \* ---- the raw LZMA round trip (tests/lzma.rs) ----
  lzma_writer,                \* the LZMAWriter
  lzma_reader,                \* the LZMAReader
  test,                       \* test_round_trip: its data, buffers and position
  \* ---- the single-threaded LZMA2Writer ----
  lzma2_writer,              \* the LZMA2Writer
  lzma2_test,                \* its caller: options, encoder profile, calls made
  \* ---- the LZIPWriter ----
  lzip_writer,               \* the LZIPWriter
  lzip_test,                 \* its caller: the data, the bytes accepted, the sink
  \* ---- the Read and Write traits of no_std ----
  io_test,                   \* a call of read_exact or write_all: source or sink, result
  \* ---- the HC4 match finder ----
  hc4_test,                  \* the HC4, the LZEncoderData it reads, the last call
  \* ---- the probability model ----
  coder_test                 \* an LZMACoder and the last call on it

mtVars == <<inner, current_work_unit, stream_size, next_sequence_to_dispatch,
            next_sequence_to_write, last_sequence_id, out_of_order_chunks,
            shutdown_flag, error_store, state, work_queue, queue_closed,
            result_ch, rx_alive, workers, ctl, ret, enc_profile,
            caller, dispatched, first_error>>

\* what a run never changes
config == <<stream_size, enc_profile, caller>>

\* the variables of the LZMA round trip
rtVars == <<lzma_writer, lzma_reader, test>>

\* the variables of the single-threaded LZMA2Writer
stVars == <<lzma2_writer, lzma2_test>>

\* the variables of the LZIPWriter
zipVars == <<lzip_writer, lzip_test>>

\* the variable of the calls of read_exact and write_all
ioVars == <<io_test>>

\* the variables of the match finder and of the probability model
unitVars == <<hc4_test, coder_test>>

vars == <<mtVars, rtVars, stVars, zipVars, ioVars, unitVars>>

(***************************************************************************)
(* LZMA2Writer: the chunk framing (src/src/enc/lzma2_writer.rs).           *)
(* A writer is a record; `out` is what it has written to its sink, one     *)
(* record per chunk; `window` holds the accepted bytes not yet in a chunk. *)
(***************************************************************************)

\* LZMAOptions::get_props: the properties byte
get_props(pb, lp, lc) == ((pb * 5 + lp) * 9 + lc) % 256

LC_DEFAULT == 3
LP_DEFAULT == 0
PB_DEFAULT == 2

\* a writer that asks for a dictionary reset whatever the options are
LZMA2Writer_new_always_reset(options) ==
  [ props              |-> get_props(options.pb, options.lp, options.lc),
    dict_reset_needed  |-> TRUE,
    state_reset_needed |-> TRUE,
    props_needed       |-> TRUE,
    pending_size       |-> 0,
    window             |-> <<>>,
    out                |-> <<>> ]

\* LZMA2Writer::new
LZMA2Writer_new(options) ==
  [ props              |-> get_props(options.pb, options.lp, options.lc),
    dict_reset_needed  |-> (options.preset_dict = None),
    state_reset_needed |-> TRUE,
    props_needed       |-> TRUE,
    pending_size       |-> 0,
    window             |-> <<>>,
    out                |-> <<>> ]

\* The encoder proper (encode_for_lzma2 of enc/encoder.rs) decides how many
\* pending bytes go into the next chunk and how many bytes they compress to.
\* A profile fixes that behaviour for a run: it gathers up to `ulimit` bytes
\* per chunk (at most 64 KiB, the writer's policy) and compresses a chunk of
\* u bytes to csize[u] bytes, which fit the range coder's buffer of
\* COMPRESSED_SIZE_MAX bytes.
encode_uncompressed_size(w, profile) == Min(w.pending_size, profile.ulimit)

encode_compressed_size(u, profile) == profile.csize[u]

\* encode_for_lzma2 returning true from write: a chunk is full
encode_chunk_full(w, profile) == w.pending_size >= profile.ulimit

\* `x as u8`
u8(x) == x % 256

\* a | b on unsigned integers
RECURSIVE BitOr(_, _)
BitOr(a, b) ==
  IF a = 0 THEN b
  ELSE IF b = 0 THEN a
  ELSE (IF a % 2 = 1 \/ b % 2 = 1 THEN 1 ELSE 0) + 2 * BitOr(a \div 2, b \div 2)

\* a control byte that asks for a state reset only along with the properties
lzma_control_without_state_reset(w, uncompressed_size) ==
  LET base == IF w.props_needed
              THEN (IF w.dict_reset_needed THEN 128 + 3 * 32 ELSE 128 + 2 * 32)
              ELSE 128
  IN BitOr(base, (uncompressed_size - 1) \div 65536)

\* the control byte of write_lzma
lzma_control(w, uncompressed_size) ==
  LET base == IF w.props_needed
              THEN (IF w.dict_reset_needed THEN 128 + 3 * 32 ELSE 128 + 2 * 32)
              ELSE IF w.state_reset_needed THEN 128 + 1 * 32
              ELSE 128
  \* control |= (uncompressed_size - 1) >> 16
  IN BitOr(base, (uncompressed_size - 1) \div 65536)

\* the header write_lzma puts in the byte order of the size fields reversed
chunk_header_low_byte_first(w, uncompressed_size, compressed_size) ==
  <<u8(lzma_control(w, uncompressed_size)),
    u8(uncompressed_size - 1), u8((uncompressed_size - 1) \div 256),
    u8(compressed_size - 1), u8((compressed_size - 1) \div 256)>>
  \o (IF w.props_needed THEN <<w.props>> ELSE <<>>)

\* the bytes write_lzma passes to write_all: chunk_header, or its first five
chunk_header(w, uncompressed_size, compressed_size) ==
  <<u8(lzma_control(w, uncompressed_size)),
    u8((uncompressed_size - 1) \div 256), u8(uncompressed_size - 1),
    u8((compressed_size - 1) \div 256), u8(compressed_size - 1)>>
  \o (IF w.props_needed THEN <<w.props>> ELSE <<>>)

\* an end of write_lzma that goes on asking for the properties byte
resets_written_props_kept(w) ==
  [w EXCEPT !.state_reset_needed = FALSE,
            !.dict_reset_needed = FALSE]

\* the end of write_lzma: the chunk carried every reset asked for
resets_written(w) ==
  [w EXCEPT !.props_needed = FALSE,
            !.state_reset_needed = FALSE,
            !.dict_reset_needed = FALSE]

\* LZMA2Writer::write_lzma
write_lzma(w, uncompressed_size, compressed_size) ==
  LET header == chunk_header(w, uncompressed_size, compressed_size)
      chunk == [ control |-> header[1],
                 header  |-> header,
                 usize   |-> uncompressed_size,
                 csize   |-> compressed_size,
                 props   |-> IF w.props_needed THEN w.props ELSE -1,
                 data    |-> SubSeq(w.window, 1, uncompressed_size) ]
  IN resets_written([w EXCEPT !.out = Append(@, chunk),
                              !.window = SubSeq(@, uncompressed_size + 1, Len(@))])

RECURSIVE write_uncompressed(_, _)

\* a write_uncompressed that puts all the bytes in one chunk
write_uncompressed_in_one_chunk(w, uncompressed_size) ==
  LET chunk_header_0 == IF w.dict_reset_needed THEN 1 ELSE 2
      chunk == [ control |-> chunk_header_0,
                 header  |-> <<chunk_header_0, u8((uncompressed_size - 1) \div 256),
                               u8(uncompressed_size - 1)>>,
                 usize   |-> uncompressed_size,
                 csize   |-> uncompressed_size,
                 props   |-> -1,
                 data    |-> SubSeq(w.window, 1, uncompressed_size) ]
  IN [w EXCEPT !.out = Append(@, chunk),
               !.window = SubSeq(@, uncompressed_size + 1, Len(@)),
               !.dict_reset_needed = FALSE,
               !.state_reset_needed = TRUE]

\* LZMA2Writer::write_uncompressed
write_uncompressed(w, uncompressed_size) ==
  IF uncompressed_size > 0
  THEN LET chunk_size == Min(uncompressed_size, COMPRESSED_SIZE_MAX)
           chunk_header_0 == IF w.dict_reset_needed THEN 1 ELSE 2
           chunk == [ control |-> chunk_header_0,
                      header  |-> <<chunk_header_0, u8((chunk_size - 1) \div 256),
                                    u8(chunk_size - 1)>>,
                      usize   |-> chunk_size,
                      csize   |-> chunk_size,
                      props   |-> -1,
                      data    |-> SubSeq(w.window, 1, chunk_size) ]
       IN write_uncompressed(
            [w EXCEPT !.out = Append(@, chunk),
                      !.window = SubSeq(@, chunk_size + 1, Len(@)),
                      !.dict_reset_needed = FALSE],
            uncompressed_size - chunk_size)
  ELSE [w EXCEPT !.state_reset_needed = TRUE]

\* a write_chunk that falls back only when the payload is no shorter than
\* the input
write_chunk_late_fallback(w, profile) ==
  LET uncompressed_size == encode_uncompressed_size(w, profile)
      compressed_size == encode_compressed_size(uncompressed_size, profile)
      w1 == IF compressed_size < uncompressed_size
            THEN write_lzma(w, uncompressed_size, compressed_size)
            ELSE write_uncompressed(w, uncompressed_size)
  IN [w1 EXCEPT !.pending_size = @ - uncompressed_size]

\* LZMA2Writer::write_chunk
write_chunk(w, profile) ==
  LET uncompressed_size == encode_uncompressed_size(w, profile)
      compressed_size == encode_compressed_size(uncompressed_size, profile)
      w1 == IF compressed_size + 2 < uncompressed_size
            THEN write_lzma(w, uncompressed_size, compressed_size)
            ELSE write_uncompressed(w, uncompressed_size)
  IN [w1 EXCEPT !.pending_size = @ - uncompressed_size]

\* F(x), with x computed once
Bind(x, F(_)) == CHOOSE r \in {F(v) : v \in {x}} : TRUE

\* the loop of LZMA2Writer::write after the window has been filled
RECURSIVE LZMA2Writer_write_loop(_, _)
LZMA2Writer_write_loop(w, profile) ==
  IF w.pending_size > 0 /\ encode_chunk_full(w, profile)
  THEN Bind(write_chunk(w, profile), LAMBDA w1 : LZMA2Writer_write_loop(w1, profile))
  ELSE w

\* LZMA2Writer::write (write_all: the whole buffer is taken)
LZMA2Writer_write(w, buf, profile) ==
  Bind([w EXCEPT !.window = @ \o buf, !.pending_size = @ + Len(buf)],
       LAMBDA w1 : LZMA2Writer_write_loop(w1, profile))

\* LZMA2Writer::flush
RECURSIVE LZMA2Writer_flush(_, _)
LZMA2Writer_flush(w, profile) ==
  IF w.pending_size > 0
  THEN Bind(write_chunk(w, profile), LAMBDA w1 : LZMA2Writer_flush(w1, profile))
  ELSE w

\* the end-of-stream byte 0x00 as a chunk record
EndOfStream ==
  [control |-> 0, header |-> <<0>>, usize |-> 0, csize |-> 0, props |-> -1, data |-> <<>>]

\* a finish that writes the end-of-stream byte at once
LZMA2Writer_finish_at_once(w, profile) ==
  [w EXCEPT !.out = Append(@, EndOfStream)]

\* LZMA2Writer::finish
LZMA2Writer_finish(w, profile) ==
  LET w1 == LZMA2Writer_flush(w, profile)
  IN [w1 EXCEPT !.out = Append(@, EndOfStream)]

(***************************************************************************)
(* LZMA2WriterMT (src/src/enc/lzma2_writer_mt.rs).                         *)
(* The caller's thread runs write, flush and finish; each is split at its  *)
(* accesses to what the worker threads share with it (the work queue, the  *)
(* result channel, the error store).  ctl.pc is the position of the        *)
(* caller's thread, ctl.op the call it is in.                              *)
(***************************************************************************)

Some(v) == [some |-> v]

Error(kind, msg, w) == [kind |-> kind, msg |-> msg, worker |-> w]

\* the error a failing worker passes to set_error
WorkerError(w) == Error("Other", "worker", w)

EmptyMap == [k \in {} |-> None]

\* arg is the length of the buffer given to write; reported is the first
\* worker error reported before the call began (None if none was)
Idle == [op |-> "none", pc |-> "idle", ctx |-> "op", blocking |-> FALSE,
         buf |-> <<>>, total |-> 0, rv |-> None, wait |-> 0,
         arg |-> 0, reported |-> None]

\* finish has returned and its `self` goes out of scope
Dropping == [Idle EXCEPT !.pc = "dropping"]

\* the writer has been dropped
Gone == [Idle EXCEPT !.pc = "gone"]

NoUnit == [seq |-> -1, data |-> <<>>]

Ok(n) == [ok |-> TRUE, n |-> n, err |-> None]
Err(e) == [ok |-> FALSE, n |-> 0, err |-> e]

\* compressible input: every chunk compresses to one byte
Compressible == [ulimit |-> COMPRESSED_SIZE_MAX, csize |-> [u \in 1..COMPRESSED_SIZE_MAX |-> 1]]

\* incompressible input: a chunk compresses to as many bytes as went in
Incompressible == [ulimit |-> COMPRESSED_SIZE_MAX, csize |-> [u \in 1..COMPRESSED_SIZE_MAX |-> u]]

\* the profiles of the encoder in the runs of the multi-threaded writer
Profiles == {Compressible, Incompressible}

\* MIN_STREAM_SIZE of lzma2_writer_mt.rs (1 << 18 there), scaled
MIN_STREAM_SIZE == StreamSize

\* the callers: one asks for a stream size below the minimum and splits its
\* input in any way, one asks for a stream size above it and writes whole
\* units; each asks for any of the worker counts
Callers ==
  UNION {{[sizes |-> BufSizes, units |-> MaxUnits,
           stream_size |-> 0, num_workers |-> r],
          [sizes |-> {MIN_STREAM_SIZE + 1}, units |-> MaxBulkUnits,
           stream_size |-> MIN_STREAM_SIZE + 1, num_workers |-> r]} :
         r \in WorkerRequests}

\* u32::clamp
clamp(x, lo, hi) == Max(lo, Min(x, hi))

\* the worker threads spawned by new
Workers == DOMAIN workers

stream_size_as_requested(requested) == requested

\* stream_size.max(MIN_STREAM_SIZE)
effective_stream_size(requested) == Max(requested, MIN_STREAM_SIZE)

\* LZMA2WriterMT::new
new ==
  /\ caller \in Callers
  /\ enc_profile \in Profiles
  /\ inner = <<>>
  /\ current_work_unit = <<>>
  /\ stream_size = effective_stream_size(caller.stream_size)
  /\ next_sequence_to_dispatch = 0
  /\ next_sequence_to_write = 0
  /\ last_sequence_id = None
  /\ out_of_order_chunks = EmptyMap
  /\ shutdown_flag = FALSE
  /\ error_store = None
  /\ state = "Writing"
  /\ work_queue = <<>>
  /\ queue_closed = FALSE
  /\ result_ch = <<>>
  /\ rx_alive = TRUE
  /\ LET num_workers == clamp(caller.num_workers, 1, 256)
     IN  workers = [w \in 1..num_workers |-> [pc |-> "top", unit |-> NoUnit]]
  /\ ctl = Idle
  /\ ret = [op |-> "none", arg |-> 0, reported |-> None, res |-> Ok(0)]
  /\ dispatched = <<>>
  /\ first_error = None

\* crate::set_error: the first error wins, the shutdown flag is raised
set_error(err) ==
  /\ error_store' = IF error_store = None THEN err ELSE error_store
  /\ shutdown_flag' = TRUE

\* a call `op` (write, flush or finish) returns `res` to the caller; finish
\* took the writer by value, so Drop runs when it returns
ReturnFrom(op, arg, res) ==
  /\ ret' = [op |-> op, arg |-> arg, reported |-> first_error, res |-> res]
  /\ ctl' = IF op = "finish" THEN Dropping ELSE Idle
  /\ UNCHANGED <<shutdown_flag, queue_closed, rx_alive>>

Return(res) ==
  /\ ret' = [op |-> ctl.op, arg |-> ctl.arg, reported |-> ctl.reported, res |-> res]
  /\ ctl' = IF ctl.op = "finish" THEN Dropping ELSE Idle
  /\ UNCHANGED <<shutdown_flag, queue_closed, rx_alive>>

\* a call begins
Call(op, arg, pc) ==
  [Idle EXCEPT !.op = op, !.pc = pc, !.arg = arg, !.reported = first_error]

\* the call goes on at another position
Goto(c) ==
  /\ ctl' = c
  /\ UNCHANGED <<ret, shutdown_flag, queue_closed, rx_alive>>

\* number of units dispatched once n more bytes are written and flushed
UnitsAfter(n) ==
  next_sequence_to_dispatch
    + ((Len(current_work_unit) + n + stream_size - 1) \div stream_size)

Alive == ctl.pc = "idle"

\* number of bytes taken into work units so far: the bytes of the input are
\* numbered 1, 2, 3, ... in the order write is given them
RECURSIVE TotalLen(_)
TotalLen(units) ==
  IF units = <<>> THEN 0 ELSE Len(Head(units).data) + TotalLen(Tail(units))

accepted == TotalLen(dispatched) + Len(current_work_unit)

not_writing_unless_finished == state = "Finished"

\* !matches!(self.state, State::Writing)
not_writing == state # "Writing"

\* Write::write, up to the loop
write(n) ==
  /\ Alive
  /\ n \in caller.sizes
  /\ UnitsAfter(n) <= caller.units
  /\ LET buf == [i \in 1..n |-> accepted + i]
     IN /\ IF buf = <<>>
           THEN ReturnFrom("write", n, Ok(0))
           ELSE IF not_writing
           THEN ReturnFrom("write", n,
                  Err(Error("InvalidInput", "Cannot write after finishing", 0)))
           ELSE Goto([Call("write", n, "w_loop") EXCEPT !.buf = buf])
  /\ UNCHANGED <<inner, current_work_unit,  next_sequence_to_dispatch,
                 next_sequence_to_write, last_sequence_id, out_of_order_chunks,
                 error_store, state, work_queue, result_ch, workers, config, rtVars, stVars, zipVars, ioVars, unitVars,
                 dispatched, first_error>>

remaining_skips_one(buf, to_write) == SubSeq(buf, to_write + 2, Len(buf))

\* remaining_buf = &remaining_buf[to_write..]
remaining(buf, to_write) == SubSeq(buf, to_write + 1, Len(buf))

\* the body of the loop of Write::write up to its first call, and its exit
write_loop ==
  /\ ctl.pc = "w_loop"
  /\ IF ctl.buf = <<>>
     THEN /\ Return(Ok(ctl.total))
          /\ UNCHANGED current_work_unit
     ELSE LET stream_remaining == Max(stream_size - Len(current_work_unit), 0)
              to_write == Min(Len(ctl.buf), stream_remaining)
              unit == current_work_unit \o SubSeq(ctl.buf, 1, to_write)
              c == [ctl EXCEPT !.buf = remaining(@, to_write),
                               !.total = @ + to_write]
          IN /\ current_work_unit' = unit
             /\ IF Len(unit) >= stream_size
                THEN Goto([c EXCEPT !.pc = "s_loop"])
                ELSE Goto([c EXCEPT !.pc = "g_top", !.ctx = "op", !.blocking = FALSE])
  /\ UNCHANGED <<inner,  next_sequence_to_dispatch,
                 next_sequence_to_write, last_sequence_id, out_of_order_chunks,
                 error_store, state, work_queue, result_ch, workers, config, rtVars, stVars, zipVars, ioVars, unitVars,
                 dispatched, first_error>>

queue_full_late == Len(work_queue) > QUEUE_LIMIT

\* self.work_queue.len() >= 4
queue_full == Len(work_queue) >= QUEUE_LIMIT

\* send_work_unit: the head of its loop, and the push
send_work_unit ==
  /\ ctl.pc = "s_loop"
  /\ IF current_work_unit = <<>>
     THEN /\ Goto([ctl EXCEPT !.pc = "s_ret", !.rv = [kind |-> "Ok"]])
          /\ UNCHANGED <<current_work_unit, work_queue, next_sequence_to_dispatch,
                         dispatched, state, error_store>>
     ELSE IF queue_full
     THEN /\ Goto([ctl EXCEPT !.pc = "g_top", !.ctx = "send", !.blocking = TRUE])
          /\ UNCHANGED <<current_work_unit, work_queue, next_sequence_to_dispatch,
                         dispatched, state, error_store>>
     ELSE LET work_unit == [seq |-> next_sequence_to_dispatch,
                            data |-> current_work_unit]
          IN /\ current_work_unit' = <<>>
             /\ IF queue_closed
                THEN \* push returned false
                     /\ state' = "Error"
                     /\ error_store' = None
                     /\ shutdown_flag' = TRUE
                     /\ ctl' = [ctl EXCEPT !.pc = "s_ret",
                          !.rv = [kind |-> "Err",
                                  err |-> IF error_store = None
                                          THEN Error("BrokenPipe", "Worker threads have shut down", 0)
                                          ELSE error_store]]
                     /\ UNCHANGED <<ret, queue_closed, rx_alive, work_queue,
                                    next_sequence_to_dispatch, dispatched>>
                ELSE /\ work_queue' = Append(work_queue, work_unit)
                     /\ next_sequence_to_dispatch' = next_sequence_to_dispatch + 1
                     /\ dispatched' = Append(dispatched, [seq |-> work_unit.seq, data |-> work_unit.data, by |-> ctl.op])
                     /\ Goto([ctl EXCEPT !.pc = "s_ret", !.rv = [kind |-> "Ok"]])
                     /\ UNCHANGED <<state, error_store>>
  /\ UNCHANGED <<inner,  next_sequence_to_write, last_sequence_id,
                 out_of_order_chunks, result_ch, workers, config, rtVars, stVars, zipVars, ioVars, unitVars,
                 first_error>>

\* send_work_unit has returned ctl.rv to write, flush or finish
send_work_unit_return ==
  /\ ctl.pc = "s_ret"
  /\ IF ctl.rv.kind = "Err"
     THEN Return(Err(ctl.rv.err))
     ELSE CASE ctl.op = "write" ->
                 Goto([ctl EXCEPT !.pc = "g_top", !.ctx = "op", !.blocking = FALSE,
                                  !.rv = None])
            [] ctl.op = "flush" ->
                 Goto([ctl EXCEPT !.pc = "f_loop", !.rv = None,
                                  !.wait = next_sequence_to_dispatch])
            [] OTHER ->
                 Goto([ctl EXCEPT !.pc = "fin", !.rv = None])
  /\ UNCHANGED <<inner, current_work_unit,  next_sequence_to_dispatch,
                 next_sequence_to_write, last_sequence_id, out_of_order_chunks,
                 error_store, state, work_queue, result_ch, workers, config, rtVars, stVars, zipVars, ioVars, unitVars,
                 dispatched, first_error>>

\* get_next_compressed_chunk: one turn of its loop up to the receive
get_next_compressed_chunk ==
  /\ ctl.pc = "g_top"
  /\ IF next_sequence_to_write \in DOMAIN out_of_order_chunks
     THEN /\ out_of_order_chunks' =
               [k \in DOMAIN out_of_order_chunks \ {next_sequence_to_write}
                  |-> out_of_order_chunks[k]]
          /\ next_sequence_to_write' = next_sequence_to_write + 1
          /\ Goto([ctl EXCEPT !.pc = "g_ret",
                    !.rv = [kind |-> "Some",
                            chunk |-> out_of_order_chunks[next_sequence_to_write]]])
          /\ UNCHANGED <<error_store, state>>
     ELSE IF error_store # None
     THEN /\ error_store' = None
          /\ state' = "Error"
          /\ Goto([ctl EXCEPT !.pc = "g_ret",
                    !.rv = [kind |-> "Err", err |-> error_store]])
          /\ UNCHANGED <<out_of_order_chunks, next_sequence_to_write>>
     ELSE /\ UNCHANGED <<out_of_order_chunks, next_sequence_to_write, error_store>>
          /\ CASE state = "Writing" ->
                    /\ Goto([ctl EXCEPT !.pc = "g_recv"])
                    /\ UNCHANGED state
               [] state = "Finishing" ->
                    IF /\ last_sequence_id # None
                       /\ next_sequence_to_write > last_sequence_id.some
                       /\ DOMAIN out_of_order_chunks = {}
                    THEN \* Finished, and the next turn returns None
                         /\ state' = "Finished"
                         /\ Goto([ctl EXCEPT !.pc = "g_ret", !.rv = [kind |-> "None"]])
                    ELSE /\ Goto([ctl EXCEPT !.pc = "g_recv"])
                         /\ UNCHANGED state
               [] state = "Finished" ->
                    /\ Goto([ctl EXCEPT !.pc = "g_ret", !.rv = [kind |-> "None"]])
                    /\ UNCHANGED state
               [] OTHER ->
                    /\ Goto([ctl EXCEPT !.pc = "g_ret",
                              !.rv = [kind |-> "Err",
                                      err |-> Error("Other",
                                        "Compression failed with an unknown error", 0)]])
                    /\ UNCHANGED state
  /\ UNCHANGED <<inner, current_work_unit,  next_sequence_to_dispatch,
                 last_sequence_id, work_queue, result_ch, workers, config, rtVars, stVars, zipVars, ioVars, unitVars,
                 dispatched, first_error>>

is_next_any(seq) == TRUE

\* seq == self.next_sequence_to_write
is_next(seq) == seq = next_sequence_to_write

\* number of Sender clones alive: one per worker thread still running
Senders == Cardinality({w \in Workers : workers[w].pc # "done"})

\* get_next_compressed_chunk: result_rx.recv() / try_recv() and the match on it
get_next_compressed_chunk_recv ==
  /\ ctl.pc = "g_recv"
  /\ \/ \* Ok((seq, result))
        /\ result_ch # <<>>
        /\ LET r == Head(result_ch)
           IN /\ result_ch' = Tail(result_ch)
              /\ IF is_next(r.seq)
                 THEN /\ next_sequence_to_write' = next_sequence_to_write + 1
                      /\ Goto([ctl EXCEPT !.pc = "g_ret",
                                !.rv = [kind |-> "Some", chunk |-> r]])
                      /\ UNCHANGED out_of_order_chunks
                 ELSE /\ out_of_order_chunks' =
                           [k \in DOMAIN out_of_order_chunks \cup {r.seq} |->
                              IF k = r.seq THEN r ELSE out_of_order_chunks[k]]
                      /\ Goto([ctl EXCEPT !.pc = "g_top"])
                      /\ UNCHANGED next_sequence_to_write
        /\ UNCHANGED <<state, error_store>>
     \/ \* Err(TryRecvError::Empty): try_recv only
        /\ result_ch = <<>>
        /\ Senders > 0
        /\ state = "Writing"
        /\ ~ctl.blocking
        /\ Goto([ctl EXCEPT !.pc = "g_ret", !.rv = [kind |-> "None"]])
        /\ UNCHANGED <<result_ch, next_sequence_to_write, out_of_order_chunks,
                       state, error_store>>
     \/ \* Err(Disconnected) while Writing
        /\ result_ch = <<>>
        /\ Senders = 0
        /\ state = "Writing"
        /\ state' = "Finishing"
        /\ Goto([ctl EXCEPT !.pc = "g_top"])
        /\ UNCHANGED <<result_ch, next_sequence_to_write, out_of_order_chunks,
                       error_store>>
     \/ \* Err(_) while Finishing
        /\ result_ch = <<>>
        /\ Senders = 0
        /\ state = "Finishing"
        /\ IF /\ last_sequence_id # None
              /\ next_sequence_to_write <= last_sequence_id.some
              /\ DOMAIN out_of_order_chunks = {}
           THEN /\ state' = "Error"
                /\ set_error(Error("InvalidData", "A compressed chunk was lost", 0))
                /\ ctl' = [ctl EXCEPT !.pc = "g_top"]
                /\ UNCHANGED <<ret, queue_closed, rx_alive>>
           ELSE /\ Goto([ctl EXCEPT !.pc = "g_top"])
                /\ UNCHANGED <<state, error_store>>
        /\ UNCHANGED <<result_ch, next_sequence_to_write, out_of_order_chunks>>
  /\ UNCHANGED <<inner, current_work_unit,  next_sequence_to_dispatch,
                 last_sequence_id, work_queue, workers, config, rtVars, stVars, zipVars, ioVars, unitVars,
                 dispatched, first_error>>

\* inner.write_all(&chunk): the sink is an in-memory buffer, as in the tests
write_all(chunk) == inner' = Append(inner, chunk)

\* the 0x00 byte finish writes
EndMarker == [seq |-> -1, bytes |-> <<EndOfStream>>]

\* get_next_compressed_chunk has returned ctl.rv to its caller
get_next_compressed_chunk_return ==
  /\ ctl.pc = "g_ret"
  /\ CASE ctl.rv.kind = "Some" ->
            /\ write_all(ctl.rv.chunk)
            /\ Goto([ctl EXCEPT !.rv = None,
                      !.pc = IF ctl.ctx = "send" THEN "s_loop"
                             ELSE IF ctl.op = "flush" THEN "f_loop"
                             ELSE "g_top"])
       [] ctl.rv.kind = "None" ->
            IF ctl.ctx = "send"
            THEN /\ UNCHANGED inner
                 /\ IF state # "Writing"
                    THEN Goto([ctl EXCEPT !.pc = "s_ret",
                           !.rv = [kind |-> "Err",
                                   err |-> Error("BrokenPipe",
                                     "Stream has been closed or is in an error state.", 0)]])
                    ELSE Goto([ctl EXCEPT !.pc = "s_loop", !.rv = None])
            ELSE CASE ctl.op = "write" ->
                        /\ UNCHANGED inner
                        /\ Goto([ctl EXCEPT !.pc = "w_loop", !.rv = None])
                   [] ctl.op = "flush" ->
                        /\ UNCHANGED inner
                        /\ Return(Err(Error("BrokenPipe",
                             "Compression stream ended unexpectedly during flush", 0)))
                   [] OTHER ->
                        \* finish: the loop ends, the end marker goes out
                        /\ write_all(EndMarker)
                        /\ Return(Ok(0))
       [] OTHER ->
            /\ UNCHANGED inner
            /\ IF ctl.ctx = "send"
               THEN Goto([ctl EXCEPT !.pc = "s_ret"])
               ELSE Return(Err(ctl.rv.err))
  /\ UNCHANGED <<current_work_unit,  next_sequence_to_dispatch,
                 next_sequence_to_write, last_sequence_id, out_of_order_chunks,
                 error_store, state, work_queue, result_ch, workers, config, rtVars, stVars, zipVars, ioVars, unitVars,
                 dispatched, first_error>>

\* Write::flush, up to its first call
flush ==
  /\ Alive
  /\ IF current_work_unit # <<>>
     THEN Goto(Call("flush", 0, "s_loop"))
     ELSE Goto([Call("flush", 0, "f_loop") EXCEPT !.wait = next_sequence_to_dispatch])
  /\ UNCHANGED <<inner, current_work_unit,  next_sequence_to_dispatch,
                 next_sequence_to_write, last_sequence_id, out_of_order_chunks,
                 error_store, state, work_queue, result_ch, workers, config, rtVars, stVars, zipVars, ioVars, unitVars,
                 dispatched, first_error>>

flush_pending_short == next_sequence_to_write + 1 < ctl.wait

\* self.next_sequence_to_write < sequence_to_wait
flush_pending == next_sequence_to_write < ctl.wait

\* the loop of Write::flush and the final inner.flush()
flush_loop ==
  /\ ctl.pc = "f_loop"
  /\ IF flush_pending
     THEN Goto([ctl EXCEPT !.pc = "g_top", !.ctx = "op", !.blocking = TRUE])
     ELSE Return(Ok(0))
  /\ UNCHANGED <<inner, current_work_unit,  next_sequence_to_dispatch,
                 next_sequence_to_write, last_sequence_id, out_of_order_chunks,
                 error_store, state, work_queue, result_ch, workers, config, rtVars, stVars, zipVars, ioVars, unitVars,
                 dispatched, first_error>>

\* LZMA2WriterMT::finish, up to send_work_unit
finish ==
  /\ Alive
  /\ Goto(Call("finish", 0, "s_loop"))
  /\ UNCHANGED <<inner, current_work_unit,  next_sequence_to_dispatch,
                 next_sequence_to_write, last_sequence_id, out_of_order_chunks,
                 error_store, state, work_queue, result_ch, workers, config, rtVars, stVars, zipVars, ioVars, unitVars,
                 dispatched, first_error>>

\* LZMA2WriterMT::finish after send_work_unit, up to its loop
finish_drain ==
  /\ ctl.pc = "fin"
  /\ IF next_sequence_to_dispatch = 0
     THEN /\ write_all(EndMarker)
          /\ Return(Ok(0))
          /\ UNCHANGED <<last_sequence_id, state>>
     ELSE /\ last_sequence_id' = Some(next_sequence_to_dispatch - 1)
          /\ state' = "Finishing"
          /\ Goto([ctl EXCEPT !.pc = "g_top", !.ctx = "op", !.blocking = TRUE])
          /\ UNCHANGED inner
  /\ UNCHANGED <<current_work_unit,  next_sequence_to_dispatch,
                 next_sequence_to_write, out_of_order_chunks,
                 error_store, work_queue, result_ch, workers, config, rtVars, stVars, zipVars, ioVars, unitVars,
                 dispatched, first_error>>

store_skipped == UNCHANGED shutdown_flag

\* self.shutdown_flag.store(true, Ordering::Relaxed)
store_shutdown == shutdown_flag' = TRUE

\* WorkStealingQueue::close
close == queue_closed' = TRUE

\* Drop for LZMA2WriterMT: the writer goes out of scope between two calls,
\* or at the return of finish, which stores the flag and closes the queue
\* itself right before
drop ==
  /\ ctl.pc \in {"idle", "dropping"}
  /\ store_shutdown
  /\ close
  /\ rx_alive' = FALSE
  /\ ctl' = Gone
  /\ UNCHANGED <<inner, current_work_unit,  next_sequence_to_dispatch,
                 next_sequence_to_write, last_sequence_id, out_of_order_chunks,
                 error_store, state, work_queue, result_ch, workers, ret,
                 config, rtVars, stVars, zipVars, ioVars, unitVars, dispatched, first_error>>

(***************************************************************************)
(* worker_thread_logic.  A step of the caller's thread that touches only   *)
(* what that thread owns commutes with every step of a worker, so it is    *)
(* taken before any worker moves on: the workers wait while CallerLocal.   *)
(***************************************************************************)

CallerLocal == ctl.pc \in {"w_loop", "s_ret", "g_ret", "f_loop", "fin"}

options_with_preset ==
  [lc |-> LC_DEFAULT, lp |-> LP_DEFAULT, pb |-> PB_DEFAULT, preset_dict |-> [some |-> <<1>>]]

\* options_with_reset: the options a worker compresses with
options_with_reset ==
  [lc |-> LC_DEFAULT, lp |-> LP_DEFAULT, pb |-> PB_DEFAULT, preset_dict |-> None]

compress_and_finish(data) ==
  LZMA2Writer_finish(
    LZMA2Writer_write(LZMA2Writer_new(options_with_reset), data, enc_profile),
    enc_profile).out

\* the body of the worker's loop between steal and send: a fresh LZMA2Writer,
\* write_all, flush
compress(data) ==
  Bind(LZMA2Writer_write(LZMA2Writer_new(options_with_reset), data, enc_profile),
       LAMBDA w : LZMA2Writer_flush(w, enc_profile).out)

\* while !shutdown_flag.load(...)
worker_check_shutdown(w) ==
  /\ ~CallerLocal
  /\ workers[w].pc = "top"
  /\ workers' = [workers EXCEPT ![w].pc = IF shutdown_flag THEN "done" ELSE "steal"]
  /\ UNCHANGED <<inner, current_work_unit,  next_sequence_to_dispatch,
                 next_sequence_to_write, last_sequence_id, out_of_order_chunks,
                 shutdown_flag, error_store, state, work_queue, queue_closed,
                 result_ch, rx_alive, ctl, ret, config, rtVars, stVars, zipVars, ioVars, unitVars, dispatched,
                 first_error>>

\* worker_handle.steal(): the oldest unit, or None once the queue is closed
\* and empty; blocks otherwise
worker_steal(w) ==
  /\ ~CallerLocal
  /\ workers[w].pc = "steal"
  /\ \/ /\ work_queue # <<>>
        /\ workers' = [workers EXCEPT ![w] = [pc |-> "work", unit |-> Head(work_queue)]]
        /\ work_queue' = Tail(work_queue)
     \/ /\ work_queue = <<>>
        /\ queue_closed
        /\ workers' = [workers EXCEPT ![w].pc = "done"]
        /\ UNCHANGED work_queue
  /\ UNCHANGED <<inner, current_work_unit,  next_sequence_to_dispatch,
                 next_sequence_to_write, last_sequence_id, out_of_order_chunks,
                 shutdown_flag, error_store, state, queue_closed,
                 result_ch, rx_alive, ctl, ret, config, rtVars, stVars, zipVars, ioVars, unitVars, dispatched,
                 first_error>>

\* the unit is compressed and result_tx.send((seq, result)) is called
worker_compress(w) ==
  /\ ~CallerLocal
  /\ workers[w].pc = "work"
  /\ IF rx_alive
     THEN /\ result_ch' = Append(result_ch,
               [seq |-> workers[w].unit.seq, bytes |-> compress(workers[w].unit.data)])
          /\ workers' = [workers EXCEPT ![w] = [pc |-> "top", unit |-> NoUnit]]
     ELSE /\ workers' = [workers EXCEPT ![w] = [pc |-> "done", unit |-> NoUnit]]
          /\ UNCHANGED result_ch
  /\ UNCHANGED <<inner, current_work_unit,  next_sequence_to_dispatch,
                 next_sequence_to_write, last_sequence_id, out_of_order_chunks,
                 shutdown_flag, error_store, state, work_queue, queue_closed,
                 rx_alive, ctl, ret, config, rtVars, stVars, zipVars, ioVars, unitVars, dispatched,
                 first_error>>

\* write_all or flush of the worker's LZMA2Writer fails: set_error, return
worker_fail(w) ==
  /\ ~CallerLocal
  /\ workers[w].pc = "work"
  /\ set_error(WorkerError(w))
  /\ first_error' = IF first_error = None THEN WorkerError(w) ELSE first_error
  /\ workers' = [workers EXCEPT ![w] = [pc |-> "done", unit |-> NoUnit]]
  /\ UNCHANGED <<inner, current_work_unit,  next_sequence_to_dispatch,
                 next_sequence_to_write, last_sequence_id, out_of_order_chunks,
                 state, work_queue, queue_closed, result_ch, rx_alive, ctl, ret,
                 config, rtVars, stVars, zipVars, ioVars, unitVars, dispatched>>

\* no round trip is run beside the multi-threaded writer
NoRoundTrip ==
  /\ lzma_writer = None
  /\ lzma_reader = None
  /\ test = [pc |-> "off"]

\* no single-threaded LZMA2Writer is run beside the multi-threaded writer
NoLZMA2Writer ==
  /\ lzma2_writer = None
  /\ lzma2_test = [pc |-> "off"]

\* no LZIPWriter is run beside the multi-threaded writer
NoLZIPWriter ==
  /\ lzip_writer = None
  /\ lzip_test = [pc |-> "off"]

\* no call of read_exact or write_all is followed
NoIO == io_test = [pc |-> "off"]

\* no match finder and no probability model beside the writers
NoUnits == hc4_test = [pc |-> "off"] /\ coder_test = [pc |-> "off"]

Init == new /\ NoRoundTrip /\ NoLZMA2Writer /\ NoLZIPWriter /\ NoIO /\ NoUnits

Next ==
  \/ \E n \in BufSizes : write(n)
  \/ write_loop
  \/ send_work_unit
  \/ send_work_unit_return
  \/ get_next_compressed_chunk
  \/ get_next_compressed_chunk_recv
  \/ get_next_compressed_chunk_return
  \/ flush
  \/ flush_loop
  \/ finish
  \/ finish_drain
  \/ drop
  \/ \E w \in Workers : worker_check_shutdown(w)
  \/ \E w \in Workers : worker_steal(w)
  \/ \E w \in Workers : worker_compress(w)
  \/ \E w \in Workers : worker_fail(w)

Spec == Init /\ [][Next]_vars

\* a step of worker thread w
worker_thread_logic(w) ==
  /\ w \in Workers
  /\ \/ worker_check_shutdown(w)
     \/ worker_steal(w)
     \/ worker_compress(w)
     \/ worker_fail(w)

\* the ids of the worker threads that exist under some request
ThreadIds == UNION {1..clamp(r, 1, 256) : r \in WorkerRequests}

\* every worker thread that can run is scheduled eventually
FairSpec == Spec /\ \A w \in ThreadIds : WF_vars(worker_thread_logic(w))

\* a step of the caller's thread inside a call of write, flush or finish
caller_thread_logic ==
  \/ write_loop
  \/ send_work_unit
  \/ send_work_unit_return
  \/ get_next_compressed_chunk
  \/ get_next_compressed_chunk_recv
  \/ get_next_compressed_chunk_return
  \/ flush_loop
  \/ finish_drain

\* the workers are scheduled, and so is the caller's thread while it is in
\* a call
FairSpecCalls == FairSpec /\ WF_vars(caller_thread_logic)

(***************************************************************************)
(* The raw LZMA round trip of tests/lzma.rs: LZMAWriter::new_no_header,    *)
(* write_all, finish, then LZMAReader::new and read_to_end.                *)
(*                                                                         *)
(* The writer and the reader are modelled from their sources.  What they   *)
(* drive (LZMAEncoder, LZMADecoder, LZDecoder and the range coder) is      *)
(* modelled from the design document: the encoder turns the window into a  *)
(* sequence of symbols (literal, match, rep match, short rep) by any       *)
(* choice of the matches the window offers, the decoder replays them       *)
(* into its dictionary, and the range coder carries the symbols unchanged. *)
(***************************************************************************)

\* bound on the length of the data of a round trip
MaxLen == 4
\* the byte values of the data
ByteValues == {0, 1}
\* the presets of the test
Presets == 0..9
\* the lengths of the buffers read_to_end hands to read
ReadSizes == {1, 2, MaxLen + 1}

NICE_LEN_MAX == 273

PRESET_TO_DICT_SIZE ==
  <<2^18, 2^20, 2^21, 2^22, 2^22, 2^23, 2^23, 2^24, 2^25, 2^26>>

PRESET_TO_DEPTH_LIMIT == <<4, 8, 24, 48>>

\* LZMAOptions::with_preset / set_preset
set_preset(level) ==
  LET preset == Min(level, 9) IN
  [ lc |-> LC_DEFAULT,
    lp |-> LP_DEFAULT,
    pb |-> PB_DEFAULT,
    dict_size |-> PRESET_TO_DICT_SIZE[preset + 1],
    mode |-> IF preset <= 3 THEN "Fast" ELSE "Normal",
    mf |-> IF preset <= 3 THEN "HC4" ELSE "BT4",
    nice_len |-> IF preset <= 3
                 THEN (IF preset <= 1 THEN 128 ELSE NICE_LEN_MAX)
                 ELSE (IF preset = 4 THEN 16 ELSE IF preset = 5 THEN 32 ELSE 64),
    depth_limit |-> IF preset <= 3 THEN PRESET_TO_DEPTH_LIMIT[preset + 1] ELSE 0,
    preset_dict |-> None ]

\* the shortest and the longest match
MATCH_LEN_MIN == 2
MATCH_LEN_MAX == 273

\* the distance 0xFFFFFFFF of the end marker, as the i32 it is kept in
END_MARKER_DIST == -1

\* a symbol of the LZMA stream.  dist is the distance of a match (the bytes
\* start dist + 1 behind the write head), idx the rep slot of a rep match.
Literal(b) == [t |-> "lit", byte |-> b, dist |-> 0, idx |-> 0, len |-> 1]
Match(dist, len) == [t |-> "match", byte |-> 0, dist |-> dist, idx |-> 0, len |-> len]
RepMatch(idx, len) == [t |-> "rep", byte |-> 0, dist |-> 0, idx |-> idx, len |-> len]
ShortRep == [t |-> "shortrep", byte |-> 0, dist |-> 0, idx |-> 0, len |-> 1]

\* the reps after a symbol: a match shifts them and becomes rep0, a rep match
\* rotates its slot to rep0, a literal and a short rep leave them
update_reps(reps, s) ==
  IF s.t = "match" THEN <<s.dist, reps[1], reps[2], reps[3]>>
  ELSE IF s.t = "rep" /\ s.idx = 1 THEN <<reps[2], reps[1], reps[3], reps[4]>>
  ELSE IF s.t = "rep" /\ s.idx = 2 THEN <<reps[3], reps[1], reps[2], reps[4]>>
  ELSE IF s.t = "rep" /\ s.idx = 3 THEN <<reps[4], reps[1], reps[2], reps[3]>>
  ELSE reps

\* LZMAEncoder::new: an empty window, reps zeroed, nothing coded
LZMAEncoder_new(options) ==
  [ window |-> <<>>, read_pos |-> 0, reps |-> <<0, 0, 0, 0>>,
    dict_size |-> options.dict_size, finishing |-> FALSE, rc |-> <<>> ]

\* the window holds, at read_pos, len bytes equal to those dist + 1 behind
\* them (the copy may overlap itself)
match_at(enc, dist, len) ==
  /\ dist >= 0
  /\ dist < Min(enc.read_pos, enc.dict_size)
  /\ enc.read_pos + len <= Len(enc.window)
  /\ \A i \in 1..len :
       enc.window[enc.read_pos + i] = enc.window[enc.read_pos + i - dist - 1]

\* the symbols the encoder may choose at read_pos: the literal, a short rep,
\* a rep match of length >= 2 or a normal match the window offers
candidates(enc) ==
  LET avail == Len(enc.window) - enc.read_pos
      lens == MATCH_LEN_MIN..Min(MATCH_LEN_MAX, avail)
  IN  {Literal(enc.window[enc.read_pos + 1])}
        \cup (IF match_at(enc, enc.reps[1], 1) THEN {ShortRep} ELSE {})
        \cup {RepMatch(i, l) : <<i, l>> \in
                {p \in (0..3) \X lens : match_at(enc, enc.reps[p[1] + 1], p[2])}}
        \cup {Match(d, l) : <<d, l>> \in
                {p \in (0..(Min(enc.read_pos, enc.dict_size) - 1)) \X lens :
                   match_at(enc, p[1], p[2])}}

\* the encoder codes symbol s: read_pos moves over its bytes
encode_symbol(enc, s) ==
  [enc EXCEPT !.rc = Append(@, s),
              !.read_pos = @ + s.len,
              !.reps = update_reps(@, s)]

\* LZMAEncoder::encode_for_lzma1: the encoder codes the window up to `upto`,
\* by any of its strategies
RECURSIVE encode_for_lzma1(_, _)
encode_for_lzma1(enc, upto) ==
  IF enc.read_pos = upto THEN {enc}
  ELSE UNION {encode_for_lzma1(encode_symbol(enc, s), upto) :
                s \in {c \in candidates(enc) : enc.read_pos + c.len <= upto}}

\* LZMAEncoder::encode_lzma1_end_marker: a match of distance 0xFFFFFFFF
encode_lzma1_end_marker(enc) ==
  [enc EXCEPT !.rc = Append(@, Match(END_MARKER_DIST, MATCH_LEN_MIN))]

\* u64::MAX, at the width of the model's integers: the sizes of the model
\* are below it, and it stands for the u64 whose bits are all ones
U64_MAX == 2147483647

\* x >> n
RECURSIVE Shr(_, _)
Shr(x, n) == IF n = 0 THEN x ELSE Shr(x \div 2, n - 1)

\* ((x >> (i * 8)) & 0xFF) as u8 of a u64 x
u64_byte(x, i) == IF x = U64_MAX THEN 255 ELSE Shr(x, i * 8) % 256

\* the loop `for _i in 0..4` of LZMAWriter::new: the low byte of dict_size
\* is written and dict_size shifted right by 8, four times
RECURSIVE write_dict_size(_, _, _)
write_dict_size(out, dict_size, i) ==
  IF i = 4 THEN out
  ELSE write_dict_size(Append(out, dict_size % 256), dict_size \div 256, i + 1)

\* LZEncoder::set_preset_dict: the preset dictionary prefills the window
set_preset_dict(lzma, dict_size, preset_dict) ==
  [lzma EXCEPT !.window = preset_dict, !.read_pos = Len(preset_dict)]

\* a header with dict_size and the size most significant byte first
write_header_big_endian(props, dict_size, expected_uncompressed_size) ==
  LET expected_compressed_size ==
        IF expected_uncompressed_size = None THEN U64_MAX
        ELSE expected_uncompressed_size.some
  IN <<props>> \o [i \in 1..4 |-> write_dict_size(<<>>, dict_size, 0)[5 - i]]
              \o [i \in 1..8 |-> u64_byte(expected_compressed_size, 8 - i)]

\* what LZMAWriter::new writes to `out` when use_header is set
write_header(props, dict_size, expected_uncompressed_size) ==
  LET expected_compressed_size ==
        IF expected_uncompressed_size = None THEN U64_MAX
        ELSE expected_uncompressed_size.some
  IN write_dict_size(<<props>>, dict_size, 0)
       \o [i \in 1..8 |-> u64_byte(expected_compressed_size, i - 1)]

\* a constructor that writes the header before it looks at the preset
\* dictionary
LZMAWriter_new_header_first(options, use_header, use_end_marker, expected_uncompressed_size) ==
  LET props == get_props(options.pb, options.lp, options.lc)
      out == IF use_header
             THEN write_header(props, options.dict_size, expected_uncompressed_size)
             ELSE <<>>
  IN IF options.preset_dict # None /\ use_header
     THEN [ok |-> FALSE, w |-> None, out |-> out,
           err |-> Error("Unsupported", "Header is not supported with preset dict", 0)]
     ELSE [ok |-> TRUE, err |-> None, out |-> out,
           w |-> [ lzma |-> LZMAEncoder_new(options),
                   use_end_marker |-> use_end_marker,
                   current_uncompressed_size |-> 0,
                   expected_uncompressed_size |-> expected_uncompressed_size,
                   props |-> props ]]

\* LZMAWriter::new: the Result, with `out` the bytes written to the sink
LZMAWriter_new(options, use_header, use_end_marker, expected_uncompressed_size) ==
  IF options.preset_dict # None /\ use_header
  THEN [ok |-> FALSE, w |-> None, out |-> <<>>,
        err |-> Error("Unsupported", "Header is not supported with preset dict", 0)]
  ELSE LET lzma == IF options.preset_dict # None
                   THEN set_preset_dict(LZMAEncoder_new(options), options.dict_size,
                                        options.preset_dict.some)
                   ELSE LZMAEncoder_new(options)
           props == get_props(options.pb, options.lp, options.lc)
       IN [ok |-> TRUE, err |-> None,
           out |-> IF use_header
                   THEN write_header(props, options.dict_size, expected_uncompressed_size)
                   ELSE <<>>,
           w |-> [ lzma |-> lzma,
                   use_end_marker |-> use_end_marker,
                   current_uncompressed_size |-> 0,
                   expected_uncompressed_size |-> expected_uncompressed_size,
                   props |-> props ]]

\* LZMAWriter::new_use_header
new_use_header(options, input_size) ==
  LZMAWriter_new(options, TRUE, input_size = None, input_size)

\* LZMAWriter::new_no_header
new_no_header(options, use_end_marker) ==
  LZMAWriter_new(options, FALSE, use_end_marker, None)

\* LZMAWriter::get_uncompressed_size
get_uncompressed_size(w) == w.current_uncompressed_size

\* a check of write that also refuses the write that reaches the expected size
exceeds_expected_or_reaches(w, n) ==
  /\ w.expected_uncompressed_size # None
  /\ w.expected_uncompressed_size.some <= w.current_uncompressed_size + n

\* the check of write against the expected size
exceeds_expected(w, n) ==
  /\ w.expected_uncompressed_size # None
  /\ w.expected_uncompressed_size.some < w.current_uncompressed_size + n

\* Write::write of LZMAWriter: the results of writing buf.  The window takes
\* all of buf and the encoder codes as far as its lookahead lets it.
LZMAWriter_write(w, buf) ==
  IF exceeds_expected(w, Len(buf))
  THEN {[w |-> w, res |-> Err(Error("InvalidInput",
           "expected compressed size does not match actual compressed size", 0))]}
  ELSE LET filled == [w.lzma EXCEPT !.window = @ \o buf]
       IN  {[w |-> [w EXCEPT !.current_uncompressed_size = @ + Len(buf),
                             !.lzma = enc],
             res |-> Ok(Len(buf))] :
              enc \in UNION {encode_for_lzma1(filled, upto) :
                               upto \in filled.read_pos..Len(filled.window)}}

\* LZMAWriter::finish: the results of finishing; `out` is the sink returned
LZMAWriter_finish(w) ==
  IF /\ w.expected_uncompressed_size # None
     /\ w.expected_uncompressed_size.some # w.current_uncompressed_size
  THEN {[out |-> <<>>, res |-> Err(Error("InvalidInput",
           "expected compressed size does not match actual compressed size", 0))]}
  ELSE LET finishing == [w.lzma EXCEPT !.finishing = TRUE]
       IN  {[out |-> (IF w.use_end_marker
                      THEN encode_lzma1_end_marker(enc)
                      ELSE enc).rc,
             res |-> Ok(0)] :
              enc \in encode_for_lzma1(finishing, Len(finishing.window))}

\* DICT_SIZE_MAX = u32::MAX & !15, at the width of the model's integers
DICT_SIZE_MAX == 2147483632

DICT_SIZE_MIN == 4096

\* get_dict_size: at least 4096, rounded up to a multiple of 16
get_dict_size(dict_size) ==
  IF dict_size > DICT_SIZE_MAX
  THEN [ok |-> FALSE, v |-> 0]
  ELSE [ok |-> TRUE, v |-> ((Max(dict_size, DICT_SIZE_MIN) + 15) \div 16) * 16]

\* LZDecoder::new: an empty dictionary of dict_size bytes.  buf is all the
\* dictionary has taken, start the part of it already flushed.
LZDecoder_new(dict_size) ==
  [ buf |-> <<>>, start |-> 0, limit |-> 0, dict_size |-> dict_size,
    pending_len |-> 0, pending_dist |-> 0 ]

\* LZDecoder::set_limit: room for out_max more bytes
set_limit(lz, out_max) == [lz EXCEPT !.limit = Len(lz.buf) + out_max]

has_space(lz) == Len(lz.buf) < lz.limit

has_pending(lz) == lz.pending_len > 0

put_byte(lz, b) == [lz EXCEPT !.buf = Append(@, b)]

\* the byte-by-byte copy of a repeat, which may read what it has just written
RECURSIVE copy_from_dict(_, _, _)
copy_from_dict(buf, dist, n) ==
  IF n = 0 THEN buf
  ELSE copy_from_dict(Append(buf, buf[Len(buf) - dist]), dist, n - 1)

\* LZDecoder::repeat: fails when dist reaches beyond the bytes the dictionary
\* holds; copies up to the limit and keeps the rest pending
repeat(lz, dist, len) ==
  IF dist < 0 \/ dist >= Min(Len(lz.buf), lz.dict_size)
  THEN [ok |-> FALSE, lz |-> lz]
  ELSE LET left == Min(lz.limit - Len(lz.buf), len)
       IN  [ok |-> TRUE,
            lz |-> [lz EXCEPT !.pending_len = len - left,
                              !.pending_dist = dist,
                              !.buf = copy_from_dict(@, dist, left)]]

\* LZDecoder::repeat_pending
repeat_pending(lz) ==
  IF lz.pending_len > 0
  THEN repeat(lz, lz.pending_dist, lz.pending_len)
  ELSE [ok |-> TRUE, lz |-> lz]

\* LZDecoder::flush: the bytes not yet handed out
lz_flush(lz) ==
  [bytes |-> SubSeq(lz.buf, lz.start + 1, Len(lz.buf)),
   lz |-> [lz EXCEPT !.start = Len(lz.buf)]]

\* LZMADecoder::end_marker_detected
end_marker_detected(lzma) == lzma.reps[1] = END_MARKER_DIST

\* the loop of LZMADecoder::decode: one symbol after the other while the
\* dictionary has space.  The end marker makes repeat fail.  r is the reader.
RECURSIVE decode_loop(_)
decode_loop(r) ==
  IF ~has_space(r.lz) THEN [ok |-> TRUE, r |-> r]
  ELSE IF r.rc.pos >= Len(r.rc.input) THEN [ok |-> FALSE, r |-> r]
  ELSE LET s == r.rc.input[r.rc.pos + 1]
           reps == update_reps(r.lzma.reps, s)
           r1 == [r EXCEPT !.rc.pos = @ + 1, !.lzma.reps = reps]
       IN  IF s.t = "lit"
           THEN decode_loop([r1 EXCEPT !.lz = put_byte(@, s.byte)])
           ELSE LET res == repeat(r1.lz, reps[1], s.len)
                IN  IF res.ok
                    THEN decode_loop([r1 EXCEPT !.lz = res.lz])
                    ELSE [ok |-> FALSE, r |-> r1]

\* LZMADecoder::decode
decode(r) ==
  LET res == repeat_pending(r.lz)
  IN  IF res.ok
      THEN decode_loop([r EXCEPT !.lz = res.lz])
      ELSE [ok |-> FALSE, r |-> r]

\* LZMAReader::construct2
construct2(reader, uncomp_size, lc, lp, pb, dict_size, preset_dict) ==
  IF lc > 8 \/ lp > 4 \/ pb > 4
  THEN Err(Error("InvalidInput", "Invalid lc or lp or pb", 0))
  ELSE LET d1 == get_dict_size(dict_size)
           d2 == IF d1.ok /\ uncomp_size <= U64_MAX \div 2 /\ d1.v > uncomp_size
                 THEN get_dict_size(uncomp_size)
                 ELSE d1
           d3 == IF d2.ok THEN get_dict_size(d2.v) ELSE d2
       IN  IF ~d3.ok
           THEN Err(Error("InvalidInput", "dict size too large", 0))
           ELSE [ok |-> TRUE, n |-> 0, err |-> None,
                 r |-> [ lz |-> LZDecoder_new(d3.v),
                         rc |-> [input |-> reader, pos |-> 0],
                         lzma |-> [lc |-> lc, lp |-> lp, pb |-> pb,
                                   reps |-> <<0, 0, 0, 0>>],
                         end_reached |-> FALSE,
                         relaxed_end_cond |-> TRUE,
                         remaining_size |-> uncomp_size ]]

\* LZMAReader::new
LZMAReader_new(reader, uncomp_size, lc, lp, pb, dict_size, preset_dict) ==
  construct2(reader, uncomp_size, lc, lp, pb, dict_size, preset_dict)

\* LZMAReader::construct1: the properties byte is taken apart
construct1(reader, uncomp_size, props, dict_size, preset_dict) ==
  IF props > (4 * 5 + 4) * 9 + 8
  THEN Err(Error("InvalidInput", "Invalid props byte", 0))
  ELSE LET pb == props \div (9 * 5)
           props1 == props - pb * 9 * 5
           lp == props1 \div 9
           lc == props1 - lp * 9
       IN IF dict_size > DICT_SIZE_MAX
          THEN Err(Error("InvalidInput", "dict size too large", 0))
          ELSE construct2(reader, uncomp_size, lc, lp, pb, dict_size, preset_dict)

\* LZMAReader::new_with_props
new_with_props(reader, uncomp_size, props, dict_size, preset_dict) ==
  construct1(reader, uncomp_size, props, dict_size, preset_dict)

\* 1 << n
RECURSIVE Shl1(_)
Shl1(n) == IF n = 0 THEN 1 ELSE 2 * Shl1(n - 1)

\* get_memory_usage, in KiB
get_memory_usage(dict_size, lc, lp) ==
  IF lc > 8 \/ lp > 4
  THEN Err(Error("InvalidInput", "Invalid lc or lp", 0))
  ELSE LET d == get_dict_size(dict_size)
       IN IF ~d.ok
          THEN Err(Error("InvalidInput", "dict size too large", 0))
          ELSE Ok(10 + d.v \div 1024 + ((2 * 768) * Shl1(lc + lp)) \div 1024)

\* get_memory_usage_by_props
get_memory_usage_by_props(dict_size, props_byte) ==
  IF dict_size > DICT_SIZE_MAX
  THEN Err(Error("InvalidInput", "dict size too large", 0))
  ELSE IF props_byte > (4 * 5 + 4) * 9 + 8
  THEN Err(Error("InvalidInput", "Invalid props byte", 0))
  ELSE LET props == props_byte % (9 * 5)
           lp == props \div 9
           lc == props - lp * 9
       IN get_memory_usage(dict_size, lc, lp)

\* ByteReader: the integers at byte offset pos of a byte sequence, the least
\* significant byte first.  The sizes of the model have their four high
\* bytes 0, but for u64::MAX.
read_u8(bytes, pos) == bytes[pos + 1]

read_u32(bytes, pos) ==
  bytes[pos + 1] + 256 * bytes[pos + 2] + 65536 * bytes[pos + 3]
    + 16777216 * bytes[pos + 4]

read_u64(bytes, pos) ==
  IF \A i \in 1..8 : bytes[pos + i] = 255 THEN U64_MAX ELSE read_u32(bytes, pos)

\* a new_mem_limit that also refuses a limit equal to the memory needed
new_mem_limit_inclusive(reader, mem_limit_kb, preset_dict) ==
  LET props == read_u8(reader.header, 0)
      dict_size == read_u32(reader.header, 1)
      uncomp_size == read_u64(reader.header, 5)
      need_mem == get_memory_usage_by_props(dict_size, props)
  IN IF ~need_mem.ok THEN Err(need_mem.err)
     ELSE IF mem_limit_kb <= need_mem.n
     THEN Err(Error("OutOfMemory", "needed memory too big for mem_limit_kb", 0))
     ELSE construct1(reader.payload, uncomp_size, props, dict_size, preset_dict)

\* LZMAReader::new_mem_limit; the reader's source is the 13 bytes of the
\* header and, after them, the payload
new_mem_limit(reader, mem_limit_kb, preset_dict) ==
  LET props == read_u8(reader.header, 0)
      dict_size == read_u32(reader.header, 1)
      uncomp_size == read_u64(reader.header, 5)
      need_mem == get_memory_usage_by_props(dict_size, props)
  IN IF ~need_mem.ok THEN Err(need_mem.err)
     ELSE IF mem_limit_kb < need_mem.n
     THEN Err(Error("OutOfMemory", "needed memory too big for mem_limit_kb", 0))
     ELSE construct1(reader.payload, uncomp_size, props, dict_size, preset_dict)

copy_size_max_unlimited(remaining_size, len) == len

\* a limit that lets one byte more than what remains through
copy_size_max_one_more(remaining_size, len) ==
  IF remaining_size <= U64_MAX \div 2 /\ remaining_size + 1 < len
  THEN remaining_size + 1
  ELSE len

\* copy_size_max of read_decode: no more than what remains of a known size
copy_size_max(remaining_size, len) ==
  IF remaining_size <= U64_MAX \div 2 /\ remaining_size < len
  THEN remaining_size
  ELSE len

\* RangeDecoder::is_stream_finished: all of the input is consumed
is_stream_finished(rc) == rc.pos = Len(rc.input)

\* a test that lets an end marker end the stream whatever the size is
error_returned_unless_end_marker(remaining_size, lzma) ==
  ~end_marker_detected(lzma)

\* the test of read_decode on an error of decode: the error is returned
\* unless the size is unknown and the end marker was detected
error_returned(remaining_size, lzma) ==
  remaining_size # U64_MAX \/ ~end_marker_detected(lzma)

\* the loop of read_decode; len is what is left of buf, out what is in it
RECURSIVE read_decode_loop(_, _, _)
read_decode_loop(r, len, out) ==
  IF len = 0 THEN [res |-> Ok(Len(out)), r |-> r, out |-> out]
  ELSE
    LET limited == [r EXCEPT !.lz = set_limit(@, copy_size_max(r.remaining_size, len))]
        d == decode(limited)
    IN  IF ~d.ok /\ error_returned(r.remaining_size, d.r.lzma)
        THEN [res |-> Err(Error("InvalidData", "decode", 0)), r |-> d.r, out |-> out]
        ELSE
          LET r2 == IF d.ok THEN d.r ELSE [d.r EXCEPT !.end_reached = TRUE]
              f == lz_flush(r2.lz)
              copied_size == Len(f.bytes)
              known == r2.remaining_size <= U64_MAX \div 2
              left == IF known THEN r2.remaining_size - copied_size
                      ELSE r2.remaining_size
              r3 == [r2 EXCEPT !.lz = f.lz,
                               !.remaining_size = left,
                               !.end_reached = @ \/ (known /\ left = 0)]
              out3 == out \o f.bytes
          IN  IF r3.end_reached
              THEN IF \/ has_pending(r3.lz)
                      \/ (~r3.relaxed_end_cond /\ ~is_stream_finished(r3.rc))
                   THEN [res |-> Err(Error("InvalidData",
                                   "end reached but not decoder finished", 0)),
                         r |-> r3, out |-> out3]
                   ELSE [res |-> Ok(Len(out3)), r |-> r3, out |-> out3]
              ELSE read_decode_loop(r3, len - copied_size, out3)

\* LZMAReader::read_decode on a buffer of len bytes
read_decode(r, len) ==
  IF len = 0 THEN [res |-> Ok(0), r |-> r, out |-> <<>>]
  ELSE IF r.end_reached THEN [res |-> Ok(0), r |-> r, out |-> <<>>]
  ELSE read_decode_loop(r, len, <<>>)

\* the byte sequences of length 0..n
RECURSIVE SeqsUpTo(_)
SeqsUpTo(n) ==
  IF n = 0 THEN {<<>>}
  ELSE LET shorter == SeqsUpTo(n - 1)
       IN  shorter \cup {Append(x, b) : x \in {y \in shorter : Len(y) = n - 1},
                                        b \in ByteValues}

\* test_round_trip(data, level) up to the writer's construction
test_round_trip ==
  /\ \E data \in SeqsUpTo(MaxLen), level \in Presets :
       /\ test = [pc |-> "write", data |-> data, option |-> set_preset(level),
                  off |-> 0, compressed |-> <<>>, uncompressed |-> <<>>,
                  reads |-> 0, res |-> Ok(0)]
       /\ lzma_writer = new_no_header(set_preset(level), TRUE).w
  /\ lzma_reader = None

\* writer.write_all(data), one call of write per part of the data
LZMAWriter_write_call(n) ==
  /\ test.pc = "write"
  /\ n >= 1
  /\ test.off + n <= Len(test.data)
  /\ \E r \in LZMAWriter_write(lzma_writer, SubSeq(test.data, test.off + 1, test.off + n)) :
       /\ lzma_writer' = r.w
       /\ test' = IF r.res.ok
                  THEN [test EXCEPT !.off = @ + r.res.n]
                  ELSE [test EXCEPT !.pc = "failed", !.res = r.res]
  /\ UNCHANGED <<lzma_reader, mtVars, stVars, zipVars, ioVars, unitVars>>

\* writer.finish()
LZMAWriter_finish_call ==
  /\ test.pc = "write"
  /\ test.off = Len(test.data)
  /\ \E r \in LZMAWriter_finish(lzma_writer) :
       test' = IF r.res.ok
               THEN [test EXCEPT !.pc = "open", !.compressed = r.out]
               ELSE [test EXCEPT !.pc = "failed", !.res = r.res]
  /\ lzma_writer' = None
  /\ UNCHANGED <<lzma_reader, mtVars, stVars, zipVars, ioVars, unitVars>>

\* LZMAReader::new(compressed, data.len(), lc, lp, pb, dict_size, preset_dict)
LZMAReader_new_call ==
  /\ test.pc = "open"
  /\ LET r == LZMAReader_new(test.compressed, Len(test.data), test.option.lc,
                             test.option.lp, test.option.pb,
                             test.option.dict_size, test.option.preset_dict)
     IN  IF r.ok
         THEN /\ lzma_reader' = r.r
              /\ test' = [test EXCEPT !.pc = "read"]
         ELSE /\ lzma_reader' = lzma_reader
              /\ test' = [test EXCEPT !.pc = "failed", !.res = Err(r.err)]
  /\ UNCHANGED <<lzma_writer, mtVars, stVars, zipVars, ioVars, unitVars>>

\* reader.read_to_end: one call of read, with a buffer of n bytes; a return
\* of 0 ends it
LZMAReader_read(n) ==
  /\ test.pc = "read"
  /\ LET r == read_decode(lzma_reader, n)
     IN  /\ lzma_reader' = r.r
         /\ test' = IF ~r.res.ok
                    THEN [test EXCEPT !.pc = "failed", !.res = r.res]
                    ELSE IF r.res.n = 0
                    THEN [test EXCEPT !.pc = "done"]
                    ELSE [test EXCEPT !.uncompressed = @ \o r.out,
                                      !.reads = @ + 1]
  /\ UNCHANGED <<lzma_writer, mtVars, stVars, zipVars, ioVars, unitVars>>

\* the multi-threaded writer beside the round trip: constructed, never used
IdleWriterMT ==
  /\ new
  /\ Cardinality(Workers) = 1
  /\ enc_profile = Compressible
  /\ caller.units = MaxUnits

InitRoundTrip == test_round_trip /\ IdleWriterMT /\ NoLZMA2Writer /\ NoLZIPWriter /\ NoIO /\ NoUnits

NextRoundTrip ==
  \/ \E n \in 1..MaxLen : LZMAWriter_write_call(n)
  \/ LZMAWriter_finish_call
  \/ LZMAReader_new_call
  \/ \E n \in ReadSizes : LZMAReader_read(n)

SpecRoundTrip == InitRoundTrip /\ [][NextRoundTrip]_vars

(***************************************************************************)
(* The .lzma header: an LZMAWriter is constructed in each of the three     *)
(* ways, written to and finished, and an LZMAReader is made of what it     *)
(* wrote with new_mem_limit.  The sink is kept in two parts: test.header,  *)
(* the bytes the constructor wrote, and test.compressed, the payload.      *)
(***************************************************************************)

\* u32::MAX, at the width of the model's integers: no memory limit
U32_MAX == 2147483647

\* the dictionary sizes of the options: none, the least, the default, one
\* with four different bytes, the greatest, and one above the greatest
DictSizes == {0, DICT_SIZE_MIN, 8388608, 16909060, DICT_SIZE_MAX, DICT_SIZE_MAX + 1}

\* the options of the writers
LZMAHeaderOptions ==
  {[lc |-> lc, lp |-> lp, pb |-> pb, dict_size |-> d, preset_dict |-> pd] :
     lc \in {0, LC_DEFAULT, 8}, lp \in {LP_DEFAULT, 4}, pb \in {0, PB_DEFAULT, 4},
     d \in DictSizes, pd \in {None, Some(<<1>>)}}

\* the data written and the memory limits given to the reader
HeaderData == {<<>>, <<0, 0>>}
MemLimits == {16, U32_MAX}

\* the sizes a caller may announce for its data: none, the right one, a
\* wrong one
ExpectedSizes(data) == {None, Some(Len(data)), Some(Len(data) + 1)}

InitHeader ==
  /\ \E data \in HeaderData, options \in LZMAHeaderOptions :
       test = [pc |-> "new", data |-> data, option |-> options, off |-> 0,
               compressed |-> <<>>, uncompressed |-> <<>>, reads |-> 0, res |-> Ok(0),
               how |-> "none", use_header |-> FALSE, expected |-> None,
               header |-> <<>>, mem_limit_kb |-> 0]
  /\ lzma_writer = None
  /\ lzma_reader = None
  /\ IdleWriterMT
  /\ NoLZMA2Writer
  /\ NoLZIPWriter /\ NoIO /\ NoUnits

\* the constructor `how` has returned r
Constructed(how, use_header, expected, r) ==
  /\ test.pc = "new"
  /\ lzma_writer' = r.w
  /\ test' = [test EXCEPT !.pc = IF r.ok THEN "write" ELSE "rejected",
                          !.res = IF r.ok THEN Ok(0) ELSE Err(r.err),
                          !.how = how, !.use_header = use_header,
                          !.expected = expected, !.header = r.out]
  /\ UNCHANGED <<lzma_reader, mtVars, stVars, zipVars, ioVars, unitVars>>

\* LZMAWriter::new(Vec::new(), &options, use_header, use_end_marker, expected)
LZMAWriter_new_call(use_header, use_end_marker, expected) ==
  Constructed("new", use_header, expected,
              LZMAWriter_new(test.option, use_header, use_end_marker, expected))

\* LZMAWriter::new_use_header(Vec::new(), &options, input_size)
new_use_header_call(input_size) ==
  Constructed("new_use_header", TRUE, input_size,
              new_use_header(test.option, input_size))

\* LZMAWriter::new_no_header(Vec::new(), &options, use_end_marker)
new_no_header_call(use_end_marker) ==
  Constructed("new_no_header", FALSE, None,
              new_no_header(test.option, use_end_marker))

\* LZMAReader::new_mem_limit(sink, mem_limit_kb, None) on the sink of a
\* finished writer that wrote a header
new_mem_limit_call(mem_limit_kb) ==
  /\ test.pc = "open"
  /\ test.use_header
  /\ LET r == new_mem_limit([header |-> test.header, payload |-> test.compressed],
                            mem_limit_kb, None)
     IN  IF r.ok
         THEN /\ lzma_reader' = r.r
              /\ test' = [test EXCEPT !.pc = "read", !.mem_limit_kb = mem_limit_kb]
         ELSE /\ lzma_reader' = lzma_reader
              /\ test' = [test EXCEPT !.pc = "unread", !.res = Err(r.err),
                                      !.mem_limit_kb = mem_limit_kb]
  /\ UNCHANGED <<lzma_writer, mtVars, stVars, zipVars, ioVars, unitVars>>

NextHeader ==
  \/ \E use_header, use_end_marker \in BOOLEAN, expected \in ExpectedSizes(test.data) :
       LZMAWriter_new_call(use_header, use_end_marker, expected)
  \/ \E input_size \in ExpectedSizes(test.data) : new_use_header_call(input_size)
  \/ \E use_end_marker \in BOOLEAN : new_no_header_call(use_end_marker)
  \/ \E n \in 1..MaxLen : LZMAWriter_write_call(n)
  \/ LZMAWriter_finish_call
  \/ \E mem_limit_kb \in MemLimits : new_mem_limit_call(mem_limit_kb)

SpecHeader == InitHeader /\ [][NextHeader]_vars

(***************************************************************************)
(* The expected size: an LZMAWriter is constructed with an expected        *)
(* uncompressed size, and the caller writes and finishes as it likes,      *)
(* also after a call has failed.  `before` is the writer as the last call  *)
(* found it, `len` the length of the buffer of the last write.            *)
(***************************************************************************)

\* the greatest expected size of the runs
MaxExpected == 3

\* the longest buffer of a write
MaxWrite == 2

\* LZMAWriter::new(Vec::new(), &options, use_header, use_end_marker, Some(E))
InitExpected ==
  /\ \E level \in Presets, use_header, use_end_marker \in BOOLEAN,
        expected \in 0..MaxExpected :
       LET r == LZMAWriter_new(set_preset(level), use_header, use_end_marker,
                               Some(expected))
       IN /\ lzma_writer = r.w
          /\ test = [pc |-> "write", op |-> "new", option |-> set_preset(level),
                     expected |-> expected, use_header |-> use_header,
                     header |-> r.out, before |-> r.w, len |-> 0,
                     compressed |-> <<>>, res |-> Ok(0)]
  /\ lzma_reader = None
  /\ IdleWriterMT
  /\ NoLZMA2Writer
  /\ NoLZIPWriter /\ NoIO /\ NoUnits

\* writer.write(buf), for any buffer
LZMAWriter_write_any(buf) ==
  /\ test.pc = "write"
  /\ \E r \in LZMAWriter_write(lzma_writer, buf) :
       /\ lzma_writer' = r.w
       /\ test' = [test EXCEPT !.op = "write", !.res = r.res, !.len = Len(buf),
                               !.before = lzma_writer]
  /\ UNCHANGED <<lzma_reader, mtVars, stVars, zipVars, ioVars, unitVars>>

\* writer.finish(), at any time
LZMAWriter_finish_any ==
  /\ test.pc = "write"
  /\ \E r \in LZMAWriter_finish(lzma_writer) :
       test' = [test EXCEPT !.op = "finish", !.res = r.res, !.before = lzma_writer,
                            !.pc = IF r.res.ok THEN "finished" ELSE "failed",
                            !.compressed = r.out]
  /\ lzma_writer' = None
  /\ UNCHANGED <<lzma_reader, mtVars, stVars, zipVars, ioVars, unitVars>>

NextExpected ==
  \/ \E buf \in SeqsUpTo(MaxWrite) : LZMAWriter_write_any(buf)
  \/ LZMAWriter_finish_any

SpecExpected == InitExpected /\ [][NextExpected]_vars

(***************************************************************************)
(* The constructors of LZMAReader on arguments of any kind: new takes lc,  *)
(* lp and pb, new_with_props a properties byte, new_mem_limit reads the    *)
(* properties byte, the dictionary size and the size from a 13-byte        *)
(* header.  test holds the arguments, the constructor called and its       *)
(* Result; lzma_reader is the reader it returned.                          *)
(***************************************************************************)

\* the arguments: in range, at the ends of their ranges and beyond them
LcValues == {0, LC_DEFAULT, 4, 8, 9}
LpValues == {LP_DEFAULT, 1, 4, 5}
PbValues == {PB_DEFAULT, 4, 5}
\* properties bytes: lc = 0, lc = 4, lc + lp = 5, lp = 4, lc + lp = 8,
\* lc + lp = 12, the default, the greatest, and two beyond it
PropsBytes == {0, 4, 13, 36, 40, 44, 93, 224, 225, 255}
ArgDictSizes == DictSizes \cup {DICT_SIZE_MIN - 1}
UncompSizes == {0, 3, U64_MAX}
ArgMemLimits == {0, 14, 15, 16, 8202, 8203, U32_MAX - 1, U32_MAX}

InitConstruct ==
  /\ \E lc \in LcValues, lp \in LpValues, pb \in PbValues, props \in PropsBytes,
        dict_size \in ArgDictSizes, uncomp_size \in UncompSizes :
       test = [pc |-> "args", lc |-> lc, lp |-> lp, pb |-> pb, props |-> props,
               dict_size |-> dict_size, uncomp_size |-> uncomp_size,
               how |-> "none", mem_limit_kb |-> 0, res |-> Ok(0)]
  /\ lzma_writer = None
  /\ lzma_reader = None
  /\ IdleWriterMT
  /\ NoLZMA2Writer
  /\ NoLZIPWriter /\ NoIO /\ NoUnits

\* the constructor `how` has returned r
ConstructorReturned(how, mem_limit_kb, r) ==
  /\ test.pc = "args"
  /\ lzma_reader' = IF r.ok THEN r.r ELSE None
  /\ test' = [test EXCEPT !.pc = IF r.ok THEN "constructed" ELSE "rejected",
                          !.res = IF r.ok THEN Ok(0) ELSE Err(r.err),
                          !.how = how, !.mem_limit_kb = mem_limit_kb]
  /\ UNCHANGED <<lzma_writer, mtVars, stVars, zipVars, ioVars, unitVars>>

\* LZMAReader::new(reader, uncomp_size, lc, lp, pb, dict_size, None)
LZMAReader_new_with(reader) ==
  ConstructorReturned("new", 0,
           LZMAReader_new(reader, test.uncomp_size, test.lc, test.lp, test.pb,
                          test.dict_size, None))

\* LZMAReader::new_with_props(reader, uncomp_size, props, dict_size, None)
new_with_props_call(reader) ==
  ConstructorReturned("new_with_props", 0,
           new_with_props(reader, test.uncomp_size, test.props, test.dict_size, None))

\* the 13 bytes of a header with these fields
HeaderOf(props, dict_size, uncomp_size) ==
  write_header(props, dict_size,
               IF uncomp_size = U64_MAX THEN None ELSE Some(uncomp_size))

\* LZMAReader::new_mem_limit(reader, mem_limit_kb, None) on a header of the
\* arguments
new_mem_limit_with(reader, mem_limit_kb) ==
  ConstructorReturned("new_mem_limit", mem_limit_kb,
           new_mem_limit([header |-> HeaderOf(test.props, test.dict_size,
                                              test.uncomp_size),
                          payload |-> reader],
                         mem_limit_kb, None))

NextConstruct ==
  \/ LZMAReader_new_with(<<>>)
  \/ new_with_props_call(<<>>)
  \/ \E mem_limit_kb \in ArgMemLimits : new_mem_limit_with(<<>>, mem_limit_kb)

SpecConstruct == InitConstruct /\ [][NextConstruct]_vars

(***************************************************************************)
(* A raw LZMA stream read with any announced size.  The stream is written  *)
(* with or without an end marker; the reader is given the whole stream or  *)
(* a stream cut short, and the right size, a wrong one or none (u64::MAX); *)
(* the caller goes on reading after a read has returned 0.                 *)
(***************************************************************************)

\* cap on the number of calls of read
MaxReads == 3

\* the sizes announced for data of n bytes
AnnouncedSizes(n) == {k \in {n - 1, n, n + 1} : k >= 0} \cup {U64_MAX}

\* the number of symbols cut off the end of the stream
Cuts == {0, 1}

InitDecode ==
  /\ \E data \in SeqsUpTo(MaxLen), use_end_marker \in BOOLEAN :
       /\ test = [pc |-> "write", data |-> data, option |-> set_preset(0),
                  off |-> 0, compressed |-> <<>>, uncompressed |-> <<>>,
                  reads |-> 0, res |-> Ok(0), use_end_marker |-> use_end_marker,
                  uncomp_size |-> 0, input |-> <<>>, len |-> 0]
       /\ lzma_writer = new_no_header(set_preset(0), use_end_marker).w
  /\ lzma_reader = None
  /\ IdleWriterMT
  /\ NoLZMA2Writer
  /\ NoLZIPWriter /\ NoIO /\ NoUnits

\* LZMAReader::new(input, uncomp_size, lc, lp, pb, dict_size, None) on the
\* stream less its last `cut` symbols
LZMAReader_new_on(uncomp_size, cut) ==
  /\ test.pc = "open"
  /\ cut <= Len(test.compressed)
  /\ LET input == SubSeq(test.compressed, 1, Len(test.compressed) - cut)
         r == LZMAReader_new(input, uncomp_size, test.option.lc, test.option.lp,
                             test.option.pb, test.option.dict_size, None)
     IN  /\ r.ok
         /\ lzma_reader' = r.r
         /\ test' = [test EXCEPT !.pc = "read", !.uncomp_size = uncomp_size,
                                 !.input = input]
  /\ UNCHANGED <<lzma_writer, mtVars, stVars, zipVars, ioVars, unitVars>>

\* Read::read of LZMAReader on a buffer of len bytes
LZMAReader_read_call(len) ==
  /\ test.pc = "read"
  /\ test.reads < MaxReads
  /\ LET r == read_decode(lzma_reader, len)
     IN  /\ lzma_reader' = r.r
         /\ test' = [test EXCEPT !.pc = IF r.res.ok THEN "read" ELSE "failed",
                                 !.res = r.res,
                                 !.len = len,
                                 !.reads = @ + 1,
                                 !.uncompressed = IF r.res.ok THEN @ \o r.out ELSE @]
  /\ UNCHANGED <<lzma_writer, mtVars, stVars, zipVars, ioVars, unitVars>>

NextDecode ==
  \/ \E n \in 1..MaxLen : LZMAWriter_write_call(n)
  \/ LZMAWriter_finish_call
  \/ \E uncomp_size \in AnnouncedSizes(Len(test.data)), cut \in Cuts :
       LZMAReader_new_on(uncomp_size, cut)
  \/ \E len \in {0} \cup ReadSizes : LZMAReader_read_call(len)

SpecDecode == InitDecode /\ [][NextDecode]_vars

(***************************************************************************)
(* The LZIP container (src/src/lzip.rs, src/src/lzip/writer.rs).  A member *)
(* is a header of 6 bytes, a raw LZMA stream with end marker and a trailer *)
(* of 20 bytes.  The sink is the sequence of the parts written to it, each *)
(* a record of its kind and its bytes; the bytes of an LZMA stream are the *)
(* symbols the range coder carries.                                        *)
(***************************************************************************)

LZIP_MAGIC == <<76, 90, 73, 80>>
LZIP_VERSION == 1
HEADER_SIZE == 6
TRAILER_SIZE == 20
MIN_DICT_SIZE == 4 * 1024
MAX_DICT_SIZE == 512 * 1024 * 1024

\* a range test without the lower limit
dict_size_out_of_range_above_only(dict_size) == dict_size > MAX_DICT_SIZE

\* dict_size < MIN_DICT_SIZE || dict_size > MAX_DICT_SIZE
dict_size_out_of_range(dict_size) ==
  dict_size < MIN_DICT_SIZE \/ dict_size > MAX_DICT_SIZE

\* decode_dict_size
decode_dict_size(encoded) ==
  LET base_log2 == encoded % 32
      fraction_num == encoded \div 32
  IN IF base_log2 < 12 \/ base_log2 > 29
     THEN Err(Error("InvalidData", "invalid LZIP dictionary size base", 0))
     ELSE IF fraction_num > 7
     THEN Err(Error("InvalidData", "invalid LZIP dictionary size fraction", 0))
     ELSE LET base_size == Shl1(base_log2)
              fraction_size == IF base_log2 >= 4
                               THEN (base_size \div 16) * fraction_num
                               ELSE 0
              dict_size == base_size - fraction_size
          IN IF dict_size_out_of_range(dict_size)
             THEN Err(Error("InvalidData", "LZIP dictionary size out of range", 0))
             ELSE Ok(dict_size)

\* every value of the dictionary size byte of a member header
EncodedBytes == 0 .. 255

InitDictSize ==
  /\ \E encoded \in EncodedBytes :
       lzip_test = [pc |-> "encoded", encoded |-> encoded, res |-> Ok(0)]
  /\ lzip_writer = None
  /\ IdleWriterMT
  /\ NoRoundTrip
  /\ NoLZMA2Writer
  /\ NoIO /\ NoUnits

\* decode_dict_size(encoded)
decode_dict_size_call ==
  /\ lzip_test.pc = "encoded"
  /\ lzip_test' = [lzip_test EXCEPT !.pc = "decoded",
                                    !.res = decode_dict_size(lzip_test.encoded)]
  /\ UNCHANGED <<mtVars, rtVars, stVars, lzip_writer, ioVars, unitVars>>

NextDictSize == decode_dict_size_call

SpecDictSize == InitDictSize /\ [][NextDictSize]_vars

\* the bytes decode_dict_size accepts, each with its dictionary size
DictSizeBytes ==
  {<<e, decode_dict_size(e).n>> : e \in {x \in EncodedBytes : decode_dict_size(x).ok}}

\* encode_dict_size: the byte of the smallest dictionary size the header can
\* express that is not below dict_size
encode_dict_size(dict_size) ==
  LET fits == {p \in DictSizeBytes : p[2] >= dict_size}
  IN (CHOOSE p \in fits : \A q \in fits : q[2] >= p[2])[1]

\* a ^ b on unsigned integers
RECURSIVE BitXor(_, _)
BitXor(a, b) ==
  IF a = 0 THEN b
  ELSE IF b = 0 THEN a
  ELSE ((a + b) % 2) + 2 * BitXor(a \div 2, b \div 2)

\* CRC-32/ISO-HDLC: the reflected polynomial 0xEDB88320, the register set to
\* all ones at the start and inverted at the end.  The register of 32 bits
\* is kept as its two halves of 16 bits.
crc_shift(c) ==
  LET hi == c.hi \div 2
      lo == (c.lo \div 2) + (c.hi % 2) * 32768
  IN IF c.lo % 2 = 1
     THEN [hi |-> BitXor(hi, 60856), lo |-> BitXor(lo, 33568)]
     ELSE [hi |-> hi, lo |-> lo]

RECURSIVE crc_shifts(_, _)
crc_shifts(c, n) == IF n = 0 THEN c ELSE crc_shifts(crc_shift(c), n - 1)

\* CRC32.digest()
CRC32_digest == [hi |-> 65535, lo |-> 65535]

\* Digest::update
RECURSIVE crc_update(_, _)
crc_update(c, bytes) ==
  IF bytes = <<>> THEN c
  ELSE Bind(crc_shifts([c EXCEPT !.lo = BitXor(@, Head(bytes))], 8),
            LAMBDA c1 : crc_update(c1, Tail(bytes)))

\* Digest::finalize
crc_finalize(c) == [hi |-> 65535 - c.hi, lo |-> 65535 - c.lo]

\* ByteWriter::write_u32 of a CRC, the least significant byte first
write_crc(crc) ==
  <<crc.lo % 256, crc.lo \div 256, crc.hi % 256, crc.hi \div 256>>

\* ByteWriter::write_u64
write_u64(x) == [i \in 1..8 |-> u64_byte(x, i - 1)]

\* a part of what the sink has taken
Piece(kind, bytes) == [kind |-> kind, bytes |-> bytes]

\* LZIPOptions, with the cap on the uncompressed bytes of a member
LZIPOptions(lzma_options, member_size) ==
  [lzma_options |-> lzma_options, member_size |-> member_size]

\* LZIPWriter::new: the options with the LZMA-302eos parameters
LZIPWriter_new(inner_sink, options) ==
  [ inner |-> Some(inner_sink),
    lzma_writer |-> None,
    options |-> [options EXCEPT
                   !.lzma_options.lc = 3,
                   !.lzma_options.lp = 0,
                   !.lzma_options.pb = 2,
                   !.lzma_options.dict_size = Max(MIN_DICT_SIZE, Min(@, MAX_DICT_SIZE))],
    header_written |-> FALSE,
    finished |-> FALSE,
    crc_digest |-> CRC32_digest,
    uncompressed_size |-> 0,
    member_start_pos |-> 0,
    current_member_uncompressed_size |-> 0 ]

\* LZIPWriter::should_finish_member
should_finish_member(w) ==
  /\ w.options.member_size # None
  /\ w.current_member_uncompressed_size >= w.options.member_size.some

\* the sink: the parts it has taken, and the number of parts it still takes
\* before its writes fail (None: it never fails)
Sink(pieces, room) == [pieces |-> pieces, room |-> room]

\* the error of a sink that takes no more
SinkError == Err(Error("Other", "sink", 0))

\* expect(msg) on a None
Panic(msg) == Err(Error("panic", msg, 0))

\* writer.write_all of one part
sink_write_all(sink, piece) ==
  IF sink.room # None /\ sink.room.some = 0
  THEN [ok |-> FALSE, sink |-> sink]
  ELSE [ok |-> TRUE,
        sink |-> [sink EXCEPT !.pieces = Append(@, piece),
                              !.room = IF @ = None THEN None ELSE Some(@.some - 1)]]

\* LZIPWriter::start_new_member: the writer it leaves and its result.  The
\* sink is taken out of inner, the header goes to it, and an LZMA writer with
\* end marker takes it over behind a counter of its bytes.
start_new_member(w) ==
  IF w.inner = None THEN [w |-> w, res |-> Panic("inner writer not set")]
  ELSE LET header == LZIP_MAGIC \o <<LZIP_VERSION>>
                       \o <<encode_dict_size(w.options.lzma_options.dict_size)>>
           written == sink_write_all(w.inner.some, Piece("header", header))
           counting_writer == [inner |-> written.sink, bytes_written |-> 0]
       IN IF ~written.ok
          THEN [w |-> [w EXCEPT !.inner = None, !.member_start_pos = 0],
                res |-> SinkError]
          ELSE [w |-> [w EXCEPT
                         !.inner = None,
                         !.member_start_pos = 0,
                         !.lzma_writer =
                            Some([w |-> new_no_header(w.options.lzma_options, TRUE).w,
                                  inner |-> counting_writer]),
                         !.header_written = TRUE,
                         !.current_member_uncompressed_size = 0,
                         !.crc_digest = CRC32_digest,
                         !.uncompressed_size = 0],
                res |-> Ok(0)]

\* LZIPWriter::write_header
LZIPWriter_write_header(w) ==
  IF w.header_written THEN [w |-> w, res |-> Ok(0)] ELSE start_new_member(w)

\* a member size that leaves the header out
member_size_without_header(compressed_size) == compressed_size + TRAILER_SIZE

\* HEADER_SIZE + compressed_size + TRAILER_SIZE
member_size_of(compressed_size) == HEADER_SIZE + compressed_size + TRAILER_SIZE

\* LZIPWriter::finish_current_member: the writers it may leave, each with
\* its result.  The LZMA writer is taken out and finished, its stream goes to
\* the sink, and the trailer follows.
finish_current_member(w) ==
  IF w.lzma_writer = None THEN {[w |-> w, res |-> Panic("lzma writer not set")]}
  ELSE { LET taken == [w EXCEPT !.lzma_writer = None]
             stream == sink_write_all(w.lzma_writer.some.inner.inner,
                                      Piece("payload", r.out))
             compressed_size == w.lzma_writer.some.inner.bytes_written + Len(r.out)
             member_size == member_size_of(compressed_size)
             computed_crc == crc_finalize(w.crc_digest)
             trailer == write_crc(computed_crc) \o write_u64(w.uncompressed_size)
                          \o write_u64(member_size)
             written == sink_write_all(stream.sink, Piece("trailer", trailer))
         IN IF ~r.res.ok THEN [w |-> taken, res |-> r.res]
            ELSE IF ~stream.ok THEN [w |-> taken, res |-> SinkError]
            ELSE IF ~written.ok
            THEN [w |-> [taken EXCEPT !.crc_digest = CRC32_digest], res |-> SinkError]
            ELSE [w |-> [taken EXCEPT !.crc_digest = CRC32_digest,
                                      !.inner = Some(written.sink),
                                      !.header_written = FALSE],
                  res |-> Ok(0)] :
         r \in LZMAWriter_finish(w.lzma_writer.some.w) }

\* LZIPWriter::into_inner: the sink, wherever the writer holds it
LZIPWriter_into_inner(w) ==
  IF w.lzma_writer # None
  THEN [res |-> Ok(0), sink |-> Some(w.lzma_writer.some.inner.inner)]
  ELSE IF w.inner = None
  THEN [res |-> Panic("inner writer not set"), sink |-> None]
  ELSE [res |-> Ok(0), sink |-> w.inner]

\* LZIPWriter::finish: its results, with the sinks it returns
LZIPWriter_finish(w) ==
  IF w.finished THEN {LZIPWriter_into_inner(w)}
  ELSE LET h == LZIPWriter_write_header(w)
       IN IF ~h.res.ok THEN {[res |-> h.res, sink |-> None]}
          ELSE { IF f.res.ok
                 THEN LZIPWriter_into_inner([f.w EXCEPT !.finished = TRUE])
                 ELSE [res |-> f.res, sink |-> None] :
                 f \in finish_current_member(h.w) }

\* a write that hands the LZMA writer all that remains of the buffer
bytes_to_write_all(w, remaining_len) == remaining_len

\* the bytes of the buffer the current member still takes
bytes_to_write(w, remaining_len) ==
  IF w.options.member_size # None
  THEN Min(remaining_len,
           Max(0, w.options.member_size.some - w.current_member_uncompressed_size))
  ELSE remaining_len

\* the loop of Write::write of LZIPWriter: the results of writing remaining_buf
\* after total_written bytes of the buffer
RECURSIVE LZIPWriter_write_loop(_, _, _)
LZIPWriter_write_loop(w, remaining_buf, total_written) ==
  IF remaining_buf = <<>> THEN {[w |-> w, res |-> Ok(total_written)]}
  ELSE UNION {
    LET s == IF ~f.res.ok \/ f.w.header_written THEN f ELSE start_new_member(f.w)
        w2 == s.w
        to_write == bytes_to_write(w2, Len(remaining_buf))
    IN IF ~s.res.ok THEN {s}
       ELSE IF w2.lzma_writer = None
       THEN {[w |-> w2, res |-> Panic("lzma writer not set")]}
       ELSE IF to_write = 0
       THEN UNION {IF f2.res.ok
                   THEN LZIPWriter_write_loop(f2.w, remaining_buf, total_written)
                   ELSE {f2} :
                     f2 \in finish_current_member(w2)}
       ELSE UNION {
         LET bytes_written == r.res.n
             w3 == [w2 EXCEPT !.lzma_writer.some.w = r.w]
         IN IF ~r.res.ok THEN {[w |-> w3, res |-> r.res]}
            ELSE IF bytes_written > 0
            THEN LZIPWriter_write_loop(
                   [w3 EXCEPT
                      !.crc_digest = crc_update(@, SubSeq(remaining_buf, 1, bytes_written)),
                      !.uncompressed_size = @ + bytes_written,
                      !.current_member_uncompressed_size = @ + bytes_written],
                   SubSeq(remaining_buf, bytes_written + 1, Len(remaining_buf)),
                   total_written + bytes_written)
            ELSE {[w |-> w3, res |-> Ok(total_written)]} :
         r \in LZMAWriter_write(w2.lzma_writer.some.w,
                                SubSeq(remaining_buf, 1, to_write)) } :
    f \in IF should_finish_member(w) /\ w.header_written
          THEN finish_current_member(w)
          ELSE {[w |-> w, res |-> Ok(0)]} }

\* Write::write of LZIPWriter
LZIPWriter_write(w, buf) ==
  IF w.finished
  THEN {[w |-> w, res |-> Err(Error("InvalidData", "LZIP writer already finished", 0))]}
  ELSE IF buf = <<>> THEN {[w |-> w, res |-> Ok(0)]}
  ELSE LZIPWriter_write_loop(w, buf, 0)

\* Write::flush of LZIPWriter: the flush of LZMAWriter does nothing
LZIPWriter_flush(w) == [w |-> w, res |-> Ok(0)]

\* the most bytes a caller of the LZIP writer has to write
MaxLzipInput == 5

\* the data of the callers: one byte repeated, and bytes that change
LzipData ==
  {[k \in 1..MaxLzipInput |-> 65], [k \in 1..MaxLzipInput |-> k % 3]}

\* the member sizes of the callers
MemberSizes == {None, Some(1), Some(2), Some(3)}

\* the presets of the callers
LzipPresets == {6}

\* a panic has unwound the caller
Panicked(res) == ~res.ok /\ res.err.kind = "panic"

\* LZIPWriter::new(sink, options), options from with_preset and
\* set_block_size, on a sink that takes `room` parts
LZIPWriter_new_call(room) ==
  /\ \E data \in LzipData, level \in LzipPresets, member_size \in MemberSizes :
       /\ lzip_test = [pc |-> "write", op |-> "new", data |-> data, off |-> 0,
                       options |-> LZIPOptions(set_preset(level), member_size),
                       res |-> Ok(0), sink |-> <<>>]
       /\ lzip_writer = LZIPWriter_new(Sink(<<>>, room), lzip_test.options)
  /\ IdleWriterMT
  /\ NoRoundTrip
  /\ NoLZMA2Writer
  /\ NoIO /\ NoUnits

\* the sink is a Vec
InitLZIP == LZIPWriter_new_call(None)

\* writer.write(&data[off..off + n]); after an error the caller goes on
LZIPWriter_write_call(n) ==
  /\ lzip_test.pc = "write"
  /\ lzip_test.off + n <= Len(lzip_test.data)
  /\ \E r \in LZIPWriter_write(lzip_writer,
                  SubSeq(lzip_test.data, lzip_test.off + 1, lzip_test.off + n)) :
       /\ lzip_writer' = r.w
       /\ lzip_test' = IF r.res.ok
                       THEN [lzip_test EXCEPT !.op = "write", !.res = r.res,
                                              !.off = @ + r.res.n]
                       ELSE [lzip_test EXCEPT !.op = "write", !.res = r.res,
                                              !.pc = IF Panicked(r.res) THEN "panicked"
                                                     ELSE "write"]
  /\ UNCHANGED <<mtVars, rtVars, stVars, ioVars, unitVars>>

\* writer.flush()
LZIPWriter_flush_call ==
  /\ lzip_test.pc = "write"
  /\ LET r == LZIPWriter_flush(lzip_writer)
     IN /\ lzip_writer' = r.w
        /\ lzip_test' = [lzip_test EXCEPT !.op = "flush", !.res = r.res]
  /\ UNCHANGED <<mtVars, rtVars, stVars, ioVars, unitVars>>

\* what the caller holds after the writer was consumed with result r
Consumed(op, r) ==
  [lzip_test EXCEPT !.op = op, !.res = r.res,
                    !.pc = IF r.res.ok THEN "finished"
                           ELSE IF Panicked(r.res) THEN "panicked" ELSE "failed",
                    !.sink = IF r.res.ok THEN r.sink.some.pieces ELSE <<>>]

\* writer.finish(): the writer is consumed, the sink comes back
LZIPWriter_finish_call ==
  /\ lzip_test.pc = "write"
  /\ \E r \in LZIPWriter_finish(lzip_writer) : lzip_test' = Consumed("finish", r)
  /\ lzip_writer' = None
  /\ UNCHANGED <<mtVars, rtVars, stVars, ioVars, unitVars>>

NextLZIP ==
  \/ \E n \in 0..MaxLzipInput : LZIPWriter_write_call(n)
  \/ LZIPWriter_flush_call
  \/ LZIPWriter_finish_call

SpecLZIP == InitLZIP /\ [][NextLZIP]_vars

\* the most parts a sink takes before its writes fail
MaxSinkParts == 4

\* the sink fails after some parts
InitLZIPSink == \E room \in 0..MaxSinkParts : LZIPWriter_new_call(Some(room))

\* writer.into_inner(): the writer is consumed, the sink comes back
LZIPWriter_into_inner_call ==
  /\ lzip_test.pc = "write"
  /\ lzip_test' = Consumed("into_inner", LZIPWriter_into_inner(lzip_writer))
  /\ lzip_writer' = None
  /\ UNCHANGED <<mtVars, rtVars, stVars, ioVars, unitVars>>

NextLZIPSink == NextLZIP \/ LZIPWriter_into_inner_call

SpecLZIPSink == InitLZIPSink /\ [][NextLZIPSink]_vars

(***************************************************************************)
(* The Read and Write traits of src/src/no_std.rs.  A source or a sink is  *)
(* a slice, a Vec, or any implementation of the trait: that one is given   *)
(* by the results its calls return one after the other, and returns Ok(0)  *)
(* when they are used up.                                                  *)
(***************************************************************************)

\* the most results a scripted source or sink returns
MaxScript == 3

\* the longest buffer read_exact fills and write_all writes
MaxIoLen == 3

\* what a call of read or write of some implementation may return
ScriptResults ==
  {Ok(n) : n \in 0..2}
    \cup {Err(Error(kind, "", 0)) : kind \in {"Interrupted", "Other", "InvalidData"}}

RECURSIVE Scripts(_)
Scripts(n) ==
  IF n = 0 THEN {<<>>}
  ELSE Scripts(n - 1) \cup {Append(sc, r) : sc \in Scripts(n - 1), r \in ScriptResults}

\* the bytes a source holds and a caller writes
IoBytes(n) == [k \in 1..n |-> 10 + k]

ScriptedSource(script) == [kind |-> "script", script |-> script, pos |-> 0, bytes |-> <<>>]
SliceSource(bytes) == [kind |-> "slice", script |-> <<>>, pos |-> 0, bytes |-> bytes]

ScriptedSink(script) ==
  [kind |-> "script", script |-> script, pos |-> 0, room |-> 0, content |-> <<>>]
SliceSink(room) == [kind |-> "slice", script |-> <<>>, pos |-> 0, room |-> room, content |-> <<>>]
VecSink == [kind |-> "vec", script |-> <<>>, pos |-> 0, room |-> 0, content |-> <<>>]

\* the result a scripted implementation returns to a call with a buffer of
\* len bytes: never more bytes than the buffer has
ScriptedResult(script, pos, len) ==
  IF pos >= Len(script) THEN Ok(0)
  ELSE IF script[pos + 1].ok THEN Ok(Min(script[pos + 1].n, len))
  ELSE script[pos + 1]

\* Read::read: the source after the call, the result and the bytes put at
\* the start of the buffer
Read_read(this, len) ==
  IF this.kind = "slice"
  THEN LET length == Min(Len(this.bytes), len)
       IN [this |-> [this EXCEPT !.bytes = SubSeq(@, length + 1, Len(@))],
           res |-> Ok(length),
           bytes |-> SubSeq(this.bytes, 1, length)]
  ELSE LET res == ScriptedResult(this.script, this.pos, len)
       IN [this |-> [this EXCEPT !.pos = @ + 1],
           res |-> res,
           bytes |-> [k \in 1..res.n |-> 0]]

\* a read_exact that is content with what the source had
read_exact_result_short_ok(left) == Ok(0)

\* the result of default_read_exact after its loop
read_exact_result(left) == IF left # 0 THEN Err(Error("EOF", "", 0)) ELSE Ok(0)

\* default_read_exact: the source after it, the result, the bytes the buffer
\* has taken, and the calls of read made.  left is the length of the part of
\* the buffer not yet filled.
RECURSIVE default_read_exact(_, _, _, _)
default_read_exact(this, left, filled, calls) ==
  IF left = 0
  THEN [this |-> this, res |-> read_exact_result(left), filled |-> filled, calls |-> calls]
  ELSE LET r == Read_read(this, left)
       IN IF r.res.ok /\ r.res.n = 0
          THEN [this |-> r.this, res |-> read_exact_result(left), filled |-> filled,
                calls |-> Append(calls, r.res)]
          ELSE IF r.res.ok
          THEN default_read_exact(r.this, left - r.res.n, filled \o r.bytes,
                                  Append(calls, r.res))
          ELSE IF r.res.err.kind = "Interrupted"
          THEN default_read_exact(r.this, left, filled, Append(calls, r.res))
          ELSE [this |-> r.this, res |-> r.res, filled |-> filled,
                calls |-> Append(calls, r.res)]

\* Write::write of &mut [u8], of Vec<u8> and of a scripted sink
Write_write(this, buf) ==
  IF this.kind = "slice"
  THEN IF buf = <<>> THEN [this |-> this, res |-> Ok(0)]
       ELSE IF this.room = 0
       THEN [this |-> this, res |-> Err(Error("WriteZero", "&mut [u8] is too small", 0))]
       ELSE LET write_len == Min(Len(buf), this.room)
            IN [this |-> [this EXCEPT !.content = @ \o SubSeq(buf, 1, write_len),
                                      !.room = @ - write_len],
                res |-> Ok(write_len)]
  ELSE IF this.kind = "vec"
  THEN [this |-> [this EXCEPT !.content = @ \o buf], res |-> Ok(Len(buf))]
  ELSE LET res == ScriptedResult(this.script, this.pos, Len(buf))
       IN [this |-> [this EXCEPT !.pos = @ + 1,
                                 !.content = @ \o SubSeq(buf, 1, res.n)],
           res |-> res]

\* a write_all that gives up in silence when the sink takes nothing
write_zero_result_ok(buf) == Ok(0)

\* the result of write_all when write returns Ok(0)
write_zero_result(buf) == Err(Error("WriteZero", "could not write any byte", 0))

\* Write::write_all: the sink after it, the result and the calls of write made
RECURSIVE Write_write_all(_, _, _)
Write_write_all(this, buf, calls) ==
  IF buf = <<>> THEN [this |-> this, res |-> Ok(0), calls |-> calls]
  ELSE LET r == Write_write(this, buf)
       IN IF r.res.ok /\ r.res.n = 0
          THEN [this |-> r.this, res |-> write_zero_result(buf),
                calls |-> Append(calls, r.res)]
          ELSE IF r.res.ok
          THEN Write_write_all(r.this, SubSeq(buf, r.res.n + 1, Len(buf)),
                               Append(calls, r.res))
          ELSE IF r.res.err.kind = "Interrupted"
          THEN Write_write_all(r.this, buf, Append(calls, r.res))
          ELSE [this |-> r.this, res |-> r.res, calls |-> Append(calls, r.res)]

\* the sources and the sinks of the callers
Sources ==
  {ScriptedSource(sc) : sc \in Scripts(MaxScript)}
    \cup {SliceSource(IoBytes(n)) : n \in 0..(MaxIoLen + 1)}

Sinks ==
  {ScriptedSink(sc) : sc \in Scripts(MaxScript)}
    \cup {SliceSink(room) : room \in 0..(MaxIoLen + 1)}
    \cup {VecSink}

\* a caller holds a source and a buffer to fill, or a sink and bytes to write
InitIO ==
  /\ \E len \in 0..MaxIoLen :
       \/ \E source \in Sources :
            io_test = [pc |-> "source", this |-> source, before |-> source,
                       buf |-> <<>>, len |-> len, res |-> Ok(0), calls |-> <<>>]
       \/ \E sink \in Sinks :
            io_test = [pc |-> "sink", this |-> sink, before |-> sink,
                       buf |-> IoBytes(len), len |-> len, res |-> Ok(0),
                       calls |-> <<>>]
  /\ IdleWriterMT
  /\ NoRoundTrip
  /\ NoLZMA2Writer
  /\ NoLZIPWriter /\ NoUnits

\* source.read_exact(&mut buf)
read_exact_call ==
  /\ io_test.pc = "source"
  /\ LET r == default_read_exact(io_test.this, io_test.len, <<>>, <<>>)
     IN io_test' = [io_test EXCEPT !.pc = "read", !.this = r.this, !.res = r.res,
                                   !.buf = r.filled, !.calls = r.calls]
  /\ UNCHANGED <<mtVars, rtVars, stVars, zipVars, unitVars>>

\* sink.write_all(&buf)
write_all_call ==
  /\ io_test.pc = "sink"
  /\ LET r == Write_write_all(io_test.this, io_test.buf, <<>>)
     IN io_test' = [io_test EXCEPT !.pc = "written", !.this = r.this,
                                   !.res = r.res, !.calls = r.calls]
  /\ UNCHANGED <<mtVars, rtVars, stVars, zipVars, unitVars>>

NextIO == read_exact_call \/ write_all_call

SpecIO == InitIO /\ [][NextIO]_vars

(***************************************************************************)
(* The loops of read_exact and write_all, one pass at a time, on sources   *)
(* and sinks that may return the same result to every call.                *)
(***************************************************************************)

\* the calls of read or write that are counted
MaxCalls == 4

RepeatingSource(r) == [kind |-> "repeat", script |-> <<r>>, pos |-> 0, bytes |-> <<>>]
RepeatingSink(r) ==
  [kind |-> "repeat", script |-> <<r>>, pos |-> 0, room |-> 0, content |-> <<>>]

\* what a source or sink that repeats itself returns for a buffer of len bytes
RepeatedResult(this, len) ==
  IF this.script[1].ok THEN Ok(Min(this.script[1].n, len)) ELSE this.script[1]

\* this.read(buf), of the sources above and of one that repeats itself
read_of(this, len) ==
  IF this.kind = "repeat"
  THEN [this |-> this, res |-> RepeatedResult(this, len),
        bytes |-> [k \in 1..RepeatedResult(this, len).n |-> 0]]
  ELSE Read_read(this, len)

\* self.write(buf), of the sinks above and of one that repeats itself
write_of(this, buf) ==
  IF this.kind = "repeat"
  THEN [this |-> [this EXCEPT !.content =
                    @ \o SubSeq(buf, 1, RepeatedResult(this, Len(buf)).n)],
        res |-> RepeatedResult(this, Len(buf))]
  ELSE Write_write(this, buf)

LoopSources == Sources \cup {RepeatingSource(r) : r \in ScriptResults}
LoopSinks == Sinks \cup {RepeatingSink(r) : r \in ScriptResults}

InitIOLoop ==
  /\ \E len \in 0..MaxIoLen :
       \/ \E source \in LoopSources :
            io_test = [pc |-> "read_exact", this |-> source, before |-> source,
                       buf |-> <<>>, len |-> len, res |-> Ok(0), calls |-> 0]
       \/ \E sink \in LoopSinks :
            io_test = [pc |-> "write_all", this |-> sink, before |-> sink,
                       buf |-> IoBytes(len), len |-> len, res |-> Ok(0), calls |-> 0]
  /\ IdleWriterMT
  /\ NoRoundTrip
  /\ NoLZMA2Writer
  /\ NoLZIPWriter /\ NoUnits

\* one more call, counted up to MaxCalls
Counted(calls) == Min(calls + 1, MaxCalls)

\* one pass of the loop of default_read_exact, or its return.  buf is what
\* has been filled.
read_exact_pass ==
  /\ io_test.pc = "read_exact"
  /\ LET left == io_test.len - Len(io_test.buf)
         r == read_of(io_test.this, left)
     IN io_test' =
          IF left = 0
          THEN [io_test EXCEPT !.pc = "read", !.res = read_exact_result(left)]
          ELSE IF r.res.ok /\ r.res.n = 0
          THEN [io_test EXCEPT !.pc = "read", !.this = r.this,
                               !.res = read_exact_result(left),
                               !.calls = Counted(@)]
          ELSE IF r.res.ok
          THEN [io_test EXCEPT !.this = r.this, !.buf = @ \o r.bytes,
                               !.calls = Counted(@)]
          ELSE IF r.res.err.kind = "Interrupted"
          THEN [io_test EXCEPT !.this = r.this, !.calls = Counted(@)]
          ELSE [io_test EXCEPT !.pc = "read", !.this = r.this, !.res = r.res,
                               !.calls = Counted(@)]
  /\ UNCHANGED <<mtVars, rtVars, stVars, zipVars, unitVars>>

\* one pass of the loop of write_all, or its return.  buf is what remains.
write_all_pass ==
  /\ io_test.pc = "write_all"
  /\ LET r == write_of(io_test.this, io_test.buf)
     IN io_test' =
          IF io_test.buf = <<>>
          THEN [io_test EXCEPT !.pc = "written", !.res = Ok(0)]
          ELSE IF r.res.ok /\ r.res.n = 0
          THEN [io_test EXCEPT !.pc = "written", !.this = r.this,
                               !.res = write_zero_result(io_test.buf),
                               !.calls = Counted(@)]
          ELSE IF r.res.ok
          THEN [io_test EXCEPT !.this = r.this,
                               !.buf = SubSeq(@, r.res.n + 1, Len(@)),
                               !.calls = Counted(@)]
          ELSE IF r.res.err.kind = "Interrupted"
          THEN [io_test EXCEPT !.this = r.this, !.calls = Counted(@)]
          ELSE [io_test EXCEPT !.pc = "written", !.this = r.this, !.res = r.res,
                               !.calls = Counted(@)]
  /\ UNCHANGED <<mtVars, rtVars, stVars, zipVars, unitVars>>

NextIOLoop == read_exact_pass \/ write_all_pass

SpecIOLoop == InitIOLoop /\ [][NextIOLoop]_vars

\* the thread that called read_exact or write_all keeps running
FairSpecIOLoop == SpecIOLoop /\ WF_vars(NextIOLoop)

(***************************************************************************)
(* The HC4 match finder (src/src/lz/hc4.rs).  An HC4 is a record with the  *)
(* fields of the struct; its Hash234 holds the three hash tables and the   *)
(* hash values of the last calc_hashes.  The window it reads is an         *)
(* LZEncoderData: the bytes, read_pos and write_pos.  Positions are kept   *)
(* below NormalizePos, which stands for 0x7FFFFFFF.                        *)
(***************************************************************************)

\* the position at which move_pos normalizes (0x7FFFFFFF in hc4.rs), lowered
\* so that a run reaches it
NormalizePos == 9

\* the greatest dictionary size of the runs
MaxDictSize == 5

\* the number of bytes in the window
MaxWindow == 10

\* the number of entries of the hash4 table
Hash4Size == 5

\* LZMAOptions::NICE_LEN_MIN
NICE_LEN_MIN == 8

\* the byte of the buffer at pos; the buffer is zeroed past the bytes written
buf_at(buf, pos) ==
  IF pos < 0 THEN -1 ELSE IF pos < Len(buf) THEN buf[pos + 1] ELSE 0

\* LZEncoderData::get_byte_by_pos
get_byte_by_pos(encoder, pos) == buf_at(encoder.buf, pos)

\* LZEncoderData::get_byte
get_byte(encoder, forward, backward) ==
  buf_at(encoder.buf, encoder.read_pos + forward - backward)

\* LZEncoderData::get_current_byte
get_current_byte(encoder) == buf_at(encoder.buf, encoder.read_pos)

\* LZEncoderData::read_buffer: the bytes from read_pos on
read_buffer(encoder) == [k \in 1..4 |-> buf_at(encoder.buf, encoder.read_pos + k - 1)]

\* LZEncoderData::move_pos: read_pos advances when enough bytes lie ahead,
\* and the bytes available from it are returned; otherwise 0
LZEncoderData_move_pos(encoder, required_for_flush, required_ahead) ==
  LET avail == encoder.write_pos - (encoder.read_pos + 1)
      enough == \/ avail >= required_for_flush
                \/ avail >= required_ahead /\ encoder.finishing
  IN IF enough
     THEN [encoder |-> [encoder EXCEPT !.read_pos = @ + 1], avail |-> avail]
     ELSE [encoder |-> encoder, avail |-> 0]

\* extend_match: the length of the match at distance delta, from len on
RECURSIVE extend_match(_, _, _, _, _)
extend_match(buf, read_pos, len, delta, len_limit) ==
  IF len < len_limit /\ buf_at(buf, read_pos + len - delta) = buf_at(buf, read_pos + len)
  THEN extend_match(buf, read_pos, len + 1, delta, len_limit)
  ELSE len

\* the hashes of the first two, three and four bytes
hash2_of(bytes) == bytes[1] + 2 * bytes[2]
hash3_of(bytes) == bytes[1] + 2 * bytes[2] + 4 * bytes[3]
hash4_of(bytes) == (bytes[1] + 2 * bytes[2] + 4 * bytes[3] + 8 * bytes[4]) % Hash4Size

\* Hash234::new
Hash234_new(dict_size) ==
  [ hash2_table |-> [h \in 0..3 |-> 0],
    hash3_table |-> [h \in 0..7 |-> 0],
    hash4_table |-> [h \in 0..(Hash4Size - 1) |-> 0],
    hash2_value |-> 0, hash3_value |-> 0, hash4_value |-> 0 ]

\* Hash234::calc_hashes
calc_hashes(hash, bytes) ==
  [hash EXCEPT !.hash2_value = hash2_of(bytes),
               !.hash3_value = hash3_of(bytes),
               !.hash4_value = hash4_of(bytes)]

\* Hash234::get_hash2_pos, get_hash3_pos, get_hash4_pos
get_hash2_pos(hash) == hash.hash2_table[hash.hash2_value]
get_hash3_pos(hash) == hash.hash3_table[hash.hash3_value]
get_hash4_pos(hash) == hash.hash4_table[hash.hash4_value]

\* Hash234::update_tables
update_tables(hash, pos) ==
  [hash EXCEPT !.hash2_table[hash.hash2_value] = pos,
               !.hash3_table[hash.hash3_value] = pos,
               !.hash4_table[hash.hash4_value] = pos]

\* LZEncoder::normalize: the offset leaves every position; a position at or
\* below it lies outside the window and becomes the empty entry
normalize(positions, norm_offset) ==
  [i \in DOMAIN positions |->
     IF positions[i] <= norm_offset THEN 0 ELSE positions[i] - norm_offset]

\* Hash234::normalize
Hash234_normalize(hash, norm_offset) ==
  [hash EXCEPT !.hash2_table = normalize(@, norm_offset),
               !.hash3_table = normalize(@, norm_offset),
               !.hash4_table = normalize(@, norm_offset)]

\* a constructor that keeps the depth limit it is given
HC4_new_depth_as_given(dict_size, nice_len, depth_limit) ==
  [ hash        |-> Hash234_new(dict_size),
    chain       |-> [i \in 0..dict_size |-> 0],
    depth_limit |-> depth_limit,
    cyclic_size |-> dict_size + 1,
    cyclic_pos  |-> -1,
    lz_pos      |-> dict_size + 1 ]

\* HC4::new
HC4_new(dict_size, nice_len, depth_limit) ==
  [ hash        |-> Hash234_new(dict_size),
    chain       |-> [i \in 0..dict_size |-> 0],
    depth_limit |-> IF depth_limit > 0 THEN depth_limit ELSE 4 + nice_len \div 4,
    cyclic_size |-> dict_size + 1,
    cyclic_pos  |-> -1,
    lz_pos      |-> dict_size + 1 ]

\* a normalization that leaves the chain as it is
normalized_but_chain(hc4) ==
  LET norm_offset == NormalizePos - hc4.cyclic_size
  IN IF hc4.lz_pos = NormalizePos
     THEN [hc4 EXCEPT !.hash = Hash234_normalize(@, norm_offset),
                      !.lz_pos = @ - norm_offset]
     ELSE hc4

\* HC4::move_pos, the normalization at 0x7FFFFFFF
normalized(hc4) ==
  LET norm_offset == NormalizePos - hc4.cyclic_size
  IN IF hc4.lz_pos = NormalizePos
     THEN [hc4 EXCEPT !.hash = Hash234_normalize(@, norm_offset),
                      !.chain = normalize(@, norm_offset),
                      !.lz_pos = @ - norm_offset]
     ELSE hc4

\* a cyclic position that is never wrapped
cyclic_unwrapped(cyclic_pos, cyclic_size) == cyclic_pos

\* HC4::move_pos, the wrap of cyclic_pos
cyclic_wrapped(cyclic_pos, cyclic_size) ==
  IF cyclic_pos = cyclic_size THEN 0 ELSE cyclic_pos

\* HC4::move_pos: the finder and the window after it, the bytes available,
\* and the finder before and after the normalization, if there was one
HC4_move_pos(hc4, encoder) ==
  LET m == LZEncoderData_move_pos(encoder, 4, 4)
      advanced == [hc4 EXCEPT !.lz_pos = @ + 1]
      moved == [normalized(advanced) EXCEPT
                  !.cyclic_pos = cyclic_wrapped(@ + 1, hc4.cyclic_size)]
  IN IF m.avail # 0
     THEN [hc4 |-> moved, encoder |-> m.encoder, avail |-> m.avail,
           norm |-> IF advanced.lz_pos = NormalizePos
                    THEN Some([before |-> advanced, after |-> normalized(advanced)])
                    ELSE None]
     ELSE [hc4 |-> hc4, encoder |-> m.encoder, avail |-> 0, norm |-> None]

\* a distance that is the delta itself
dist_of_delta(delta) == delta

\* the distance stored for a match at delta
dist_of(delta) == delta - 1

\* the match is used if and only if it is longer than the longest so far
better(len, len_best) == len > len_best

\* the index of the chain entry of the position delta back
chain_index(hc4, delta) ==
  hc4.cyclic_pos - delta + (IF delta > hc4.cyclic_pos THEN hc4.cyclic_size ELSE 0)

\* what find_matches and skip return to the model: the finder and the
\* window, the matches, the bytes available, the number of candidates the
\* chain walk examined, the chain indices used, and whether an index was out
\* of bounds
Found(hc4, encoder, matches, avail, examined, indices, norm) ==
  [ hc4 |-> hc4, encoder |-> encoder, matches |-> matches, avail |-> avail,
    examined |-> examined, indices |-> indices, norm |-> norm,
    panic |-> ~(indices \subseteq DOMAIN hc4.chain) ]

\* HC4::find_matches, the walk along the chain.  `lim` holds
\* match_len_limit and nice_len_limit, `at` what the call has found so far.
RECURSIVE chain_walk(_, _, _, _, _)
chain_walk(at, current_match, depth, len_best, lim) ==
  LET hc4 == at.hc4
      encoder == at.encoder
      delta == hc4.lz_pos - current_match
      i == chain_index(hc4, delta)
      examined == [at EXCEPT !.examined = @ + 1, !.indices = @ \cup {i}]
      len == extend_match(encoder.buf, encoder.read_pos, 1, delta, lim.match_len_limit)
      recorded == [examined EXCEPT
                     !.matches = Append(@, [len |-> len, dist |-> dist_of(delta)])]
  IN IF depth = 0 \/ delta >= hc4.cyclic_size THEN at
     ELSE IF i \notin DOMAIN hc4.chain THEN [examined EXCEPT !.panic = TRUE]
     ELSE IF /\ get_byte(encoder, len_best, delta) = get_byte(encoder, len_best, 0)
             /\ get_byte(encoder, 0, delta) = get_current_byte(encoder)
             /\ better(len, len_best)
     THEN IF len >= lim.nice_len_limit THEN recorded
          ELSE chain_walk(recorded, hc4.chain[i], depth - 1, len, lim)
     ELSE chain_walk(examined, hc4.chain[i], depth - 1, len_best, lim)

\* MatchFind::find_matches of HC4
find_matches(this, data) ==
  LET m == HC4_move_pos(this, data)
      avail == m.avail
      encoder == m.encoder
      short == avail < encoder.match_len_max
      match_len_limit == IF short THEN avail ELSE encoder.match_len_max
      nice_len_limit == IF short /\ encoder.nice_len > avail THEN avail
                        ELSE encoder.nice_len
      hash == calc_hashes(m.hc4.hash, read_buffer(encoder))
      delta2 == m.hc4.lz_pos - get_hash2_pos(hash)
      delta3 == m.hc4.lz_pos - get_hash3_pos(hash)
      current_match == get_hash4_pos(hash)
      hc4 == [m.hc4 EXCEPT !.hash = update_tables(hash, m.hc4.lz_pos),
                           !.chain[m.hc4.cyclic_pos] = current_match]
      matches2 == IF /\ delta2 < hc4.cyclic_size
                     /\ get_byte_by_pos(encoder, encoder.read_pos - delta2)
                          = get_byte_by_pos(encoder, encoder.read_pos)
                  THEN <<[len |-> 2, dist |-> dist_of(delta2)]>>
                  ELSE <<>>
      hit3 == /\ delta2 # delta3
              /\ delta3 < hc4.cyclic_size
              /\ get_byte(encoder, 0, delta3) = get_current_byte(encoder)
      matches3 == IF hit3 THEN Append(matches2, [len |-> 3, dist |-> dist_of(delta3)])
                  ELSE matches2
      len_seed == IF hit3 THEN 3 ELSE IF matches2 # <<>> THEN 2 ELSE 0
      len_found == IF matches3 # <<>>
                   THEN extend_match(encoder.buf, encoder.read_pos, len_seed,
                                     IF hit3 THEN delta3 ELSE delta2, match_len_limit)
                   ELSE len_seed
      matches == IF matches3 # <<>>
                 THEN [matches3 EXCEPT ![Len(matches3)].len = len_found]
                 ELSE matches3
      at == Found(hc4, encoder, matches, avail, 0, {m.hc4.cyclic_pos}, m.norm)
  IN IF avail = 0 THEN Found(m.hc4, encoder, <<>>, 0, 0, {}, None)
     ELSE IF at.panic THEN at
     ELSE IF matches # <<>> /\ len_found >= nice_len_limit THEN at
     ELSE chain_walk(at, current_match, hc4.depth_limit,
                     IF len_found < 3 THEN 3 ELSE len_found,
                     [match_len_limit |-> match_len_limit,
                      nice_len_limit |-> nice_len_limit])

\* MatchFind::skip of HC4
RECURSIVE skip(_, _)
skip(at, len) ==
  LET m == HC4_move_pos(at.hc4, at.encoder)
      hash == calc_hashes(m.hc4.hash, read_buffer(m.encoder))
      hc4 == [m.hc4 EXCEPT !.chain[m.hc4.cyclic_pos] = get_hash4_pos(hash),
                           !.hash = update_tables(hash, m.hc4.lz_pos)]
      next == Found(hc4, m.encoder, <<>>, m.avail, 0,
                    at.indices \cup {m.hc4.cyclic_pos},
                    IF m.norm # None THEN m.norm ELSE at.norm)
  IN IF len = 0 THEN at
     ELSE IF m.avail = 0
     THEN skip([at EXCEPT !.encoder = m.encoder, !.avail = 0], len - 1)
     ELSE IF next.panic THEN next
     ELSE skip(next, len - 1)

\* the depth limits the runs configure
DepthLimits == {0, 1}

\* the dictionary sizes of the runs
HC4DictSizes == {2, MaxDictSize}

\* HC4::new(dict_size, nice_len, depth_limit) beside a window of MaxWindow bytes
InitHC4 ==
  /\ \E dict_size \in HC4DictSizes, depth_limit \in DepthLimits,
        buf \in [1..MaxWindow -> ByteValues], finishing \in {FALSE} :
       hc4_test = [ pc |-> "run", op |-> "new",
                    dict_size |-> dict_size, depth_limit |-> depth_limit,
                    before |-> HC4_new(dict_size, NICE_LEN_MIN, depth_limit),
                    last |-> Found(HC4_new(dict_size, NICE_LEN_MIN, depth_limit),
                                   [ buf |-> buf, read_pos |-> -1,
                                     write_pos |-> MaxWindow,
                                     match_len_max |-> MATCH_LEN_MAX,
                                     nice_len |-> NICE_LEN_MIN,
                                     finishing |-> finishing ],
                                   <<>>, 0, 0, {}, None) ]
  /\ coder_test = [pc |-> "off"]
  /\ IdleWriterMT /\ NoRoundTrip /\ NoLZMA2Writer /\ NoLZIPWriter /\ NoIO

\* hc4.find_matches(&mut encoder, &mut matches)
find_matches_call ==
  /\ hc4_test.pc = "run"
  /\ ~hc4_test.last.panic
  /\ hc4_test' = [hc4_test EXCEPT
                    !.op = "find_matches",
                    !.before = hc4_test.last.hc4,
                    !.last = find_matches(hc4_test.last.hc4, hc4_test.last.encoder)]
  /\ UNCHANGED <<mtVars, rtVars, stVars, zipVars, ioVars, coder_test>>

\* hc4.skip(&mut encoder, len)
skip_call(len) ==
  /\ hc4_test.pc = "run"
  /\ ~hc4_test.last.panic
  /\ hc4_test' = [hc4_test EXCEPT
                    !.op = "skip",
                    !.before = hc4_test.last.hc4,
                    !.last = skip(Found(hc4_test.last.hc4, hc4_test.last.encoder,
                                        <<>>, 0, 0, {}, None), len)]
  /\ UNCHANGED <<mtVars, rtVars, stVars, zipVars, ioVars, coder_test>>

NextHC4 ==
  \/ find_matches_call
  \/ \E len \in 1..2 : skip_call(len)

SpecHC4 == InitHC4 /\ [][NextHC4]_vars

(***************************************************************************)
(* The probability model (src/src/lib.rs): LZMACoder, LiteralSubCoder and  *)
(* LengthCoder.  A table of probabilities is a function from its indices,  *)
(* a table of tables a function to such functions.  Between construction   *)
(* and reset the owner codes bits and symbols, which moves probabilities,  *)
(* reps and the state.                                                     *)
(***************************************************************************)

LOW_SYMBOLS == 2 ^ 3
MID_SYMBOLS == 2 ^ 3
HIGH_SYMBOLS == 2 ^ 8
POS_STATES_MAX == 2 ^ 4
DIST_STATES == 4
DIST_SLOTS == 2 ^ 6
ALIGN_BITS == 4
ALIGN_SIZE == 2 ^ ALIGN_BITS
REPS == 4
BIT_MODEL_TOTAL_BITS == 11
BIT_MODEL_TOTAL == 2 ^ BIT_MODEL_TOTAL_BITS
PROB_INIT == BIT_MODEL_TOTAL \div 2
MOVE_BITS == 5

\* the number of states of the Markov chain
STATES == 12

\* the symbols and bits coded between a construction or reset and the next
MaxCoded == 2

\* [v; n] and [[v; n]; m]
probs1(n, v) == [i \in 0..(n - 1) |-> v]
probs2(m, n, v) == [i \in 0..(m - 1) |-> probs1(n, v)]

\* init_probs
init_probs(probs) == [i \in DOMAIN probs |-> PROB_INIT]

\* init_probs on each element of a table of tables
init_each(tables) == [i \in DOMAIN tables |-> init_probs(tables[i])]

\* LZMACoder::reset
LZMACoder_reset(c) ==
  [c EXCEPT !.reps = [i \in 1..REPS |-> 0],
            !.state = 0,
            !.is_match = init_each(@),
            !.is_rep = init_probs(@),
            !.is_rep0 = init_probs(@),
            !.is_rep1 = init_probs(@),
            !.is_rep2 = init_probs(@),
            !.is_rep0_long = init_each(@),
            !.dist_slots = init_each(@),
            !.dist_special = init_probs(@),
            !.dist_align = init_probs(@)]

\* LZMACoder::new
LZMACoder_new(pb) ==
  LZMACoder_reset(
    [ pos_mask     |-> 2 ^ pb - 1,
      reps         |-> [i \in 1..REPS |-> 0],
      state        |-> 0,
      is_match     |-> probs2(STATES, POS_STATES_MAX, 0),
      is_rep       |-> probs1(STATES, 0),
      is_rep0      |-> probs1(STATES, 0),
      is_rep1      |-> probs1(STATES, 0),
      is_rep2      |-> probs1(STATES, 0),
      is_rep0_long |-> probs2(STATES, POS_STATES_MAX, 0),
      dist_slots   |-> probs2(DIST_STATES, DIST_SLOTS, 0),
      dist_special |-> probs1(124, 0),
      dist_align   |-> probs1(ALIGN_SIZE, 0) ])

\* LiteralSubCoder::new
LiteralSubCoder_new == [probs |-> probs1(768, PROB_INIT)]

\* LiteralSubCoder::reset
LiteralSubCoder_reset(c) == [c EXCEPT !.probs = probs1(768, PROB_INIT)]

\* LengthCoder::new
LengthCoder_new ==
  [ choice |-> probs1(2, 0),
    low    |-> probs2(POS_STATES_MAX, LOW_SYMBOLS, 0),
    mid    |-> probs2(POS_STATES_MAX, MID_SYMBOLS, 0),
    high   |-> probs1(HIGH_SYMBOLS, 0) ]

\* LengthCoder::reset
LengthCoder_reset(c) ==
  [c EXCEPT !.choice = init_probs(@),
            !.low = init_each(@),
            !.mid = init_each(@),
            !.high = init_probs(@)]

\* the tables of probabilities of a coder, and its tables of tables
Tables1(kind) ==
  CASE kind = "LZMACoder" ->
         {"is_rep", "is_rep0", "is_rep1", "is_rep2", "dist_special", "dist_align"}
    [] kind = "LiteralSubCoder" -> {"probs"}
    [] kind = "LengthCoder" -> {"choice", "high"}
    [] OTHER -> {}
Tables2(kind) ==
  CASE kind = "LZMACoder" -> {"is_match", "is_rep0_long", "dist_slots"}
    [] kind = "LengthCoder" -> {"low", "mid"}
    [] OTHER -> {}

\* the probability after a bit has been coded with it
adapt(prob, bit) ==
  IF bit = 0 THEN prob + (BIT_MODEL_TOTAL - prob) \div 2 ^ MOVE_BITS
  ELSE prob - prob \div 2 ^ MOVE_BITS

\* the first and the last index of a table
Ends(table) == {0, Cardinality(DOMAIN table) - 1}

\* nothing constructed yet
InitCoder ==
  /\ coder_test = [pc |-> "start", kind |-> "none", op |-> "none",
                   coder |-> None, coded |-> 0]
  /\ hc4_test = [pc |-> "off"]
  /\ IdleWriterMT /\ NoRoundTrip /\ NoLZMA2Writer /\ NoLZIPWriter /\ NoIO

\* a constructor has returned the coder
CoderConstructed(kind, coder) ==
  /\ coder_test.pc = "start"
  /\ coder_test' = [pc |-> "run", kind |-> kind, op |-> "new", coder |-> coder,
                    coded |-> 0]
  /\ UNCHANGED <<mtVars, rtVars, stVars, zipVars, ioVars, hc4_test>>

\* LZMACoder::new(pb)
LZMACoder_new_call(pb) == CoderConstructed("LZMACoder", LZMACoder_new(pb))

\* LiteralSubCoder::new()
LiteralSubCoder_new_call == CoderConstructed("LiteralSubCoder", LiteralSubCoder_new)

\* LengthCoder::new()
LengthCoder_new_call == CoderConstructed("LengthCoder", LengthCoder_new)

\* coder.reset()
reset_call ==
  /\ coder_test.pc = "run"
  /\ coder_test' =
       [coder_test EXCEPT
          !.op = "reset",
          !.coded = 0,
          !.coder = CASE coder_test.kind = "LZMACoder" -> LZMACoder_reset(@)
                      [] coder_test.kind = "LiteralSubCoder" -> LiteralSubCoder_reset(@)
                      [] coder_test.kind = "LengthCoder" -> LengthCoder_reset(@)]
  /\ UNCHANGED <<mtVars, rtVars, stVars, zipVars, ioVars, hc4_test>>

\* the owner codes a bit with a probability of a table
bit_coded ==
  /\ coder_test.pc = "run"
  /\ coder_test.coded < MaxCoded
  /\ \E f \in Tables1(coder_test.kind), bit \in {0, 1} :
       \E i \in Ends(coder_test.coder[f]) :
         coder_test' = [coder_test EXCEPT !.op = "bit", !.coded = @ + 1,
                                          !.coder[f][i] = adapt(@, bit)]
  /\ UNCHANGED <<mtVars, rtVars, stVars, zipVars, ioVars, hc4_test>>

\* the owner codes a bit with a probability of a table of tables
bit_coded_in_context ==
  /\ coder_test.pc = "run"
  /\ coder_test.coded < MaxCoded
  /\ \E f \in Tables2(coder_test.kind), bit \in {0, 1} :
       \E i \in Ends(coder_test.coder[f]) :
         \E j \in Ends(coder_test.coder[f][i]) :
           coder_test' = [coder_test EXCEPT !.op = "bit", !.coded = @ + 1,
                                            !.coder[f][i][j] = adapt(@, bit)]
  /\ UNCHANGED <<mtVars, rtVars, stVars, zipVars, ioVars, hc4_test>>

\* the owner codes a match at distance dist: the reps move up, the state
\* becomes a state after a match
match_coded(dist) ==
  /\ coder_test.pc = "run"
  /\ coder_test.kind = "LZMACoder"
  /\ coder_test.coded < MaxCoded
  /\ coder_test' =
       [coder_test EXCEPT
          !.op = "match", !.coded = @ + 1,
          !.coder.reps = <<dist, @[1], @[2], @[3]>>,
          !.coder.state = IF @ < 7 THEN 7 ELSE 10]
  /\ UNCHANGED <<mtVars, rtVars, stVars, zipVars, ioVars, hc4_test>>

NextCoder ==
  \/ \E pb \in 0..4 : LZMACoder_new_call(pb)
  \/ LiteralSubCoder_new_call
  \/ LengthCoder_new_call
  \/ reset_call
  \/ bit_coded
  \/ bit_coded_in_context
  \/ \E dist \in 1..2 : match_coded(dist)

SpecCoder == InitCoder /\ [][NextCoder]_vars

(***************************************************************************)
(* A single-threaded LZMA2Writer and its caller                            *)
(* (src/src/enc/lzma2_writer.rs).  The caller writes buffers, flushes and  *)
(* finishes; lzma2_test remembers the options and the encoder's profile of *)
(* the run, the number of bytes accepted, the last call and how many       *)
(* chunks (the end-of-stream byte included) it wrote.                      *)
(***************************************************************************)

\* cap on the number of bytes a run of the single-threaded writer accepts
MaxInput == 10

\* LZMAOptions of the runs: lc, lp and pb at their default, least and
\* greatest values, with and without a preset dictionary
LZMA2Options ==
  {[lc |-> p[1], lp |-> p[2], pb |-> p[3], preset_dict |-> p[4]] :
     p \in {<<LC_DEFAULT, LP_DEFAULT, PB_DEFAULT, None>>,
            <<LC_DEFAULT, LP_DEFAULT, PB_DEFAULT, Some(<<1>>)>>,
            <<0, 0, 0, None>>,
            <<8, 4, 4, Some(<<1>>)>>}}

\* the compressed sizes the encoder may reach on a chunk of u bytes: the
\* sizes on either side of the fallback's threshold and u itself
CompressedSizes(u) == {c \in {u - 3, u - 2, u} : c >= 1}

\* the profiles of the encoder in the runs of the single-threaded writer
LZMA2Profiles ==
  {[ulimit |-> COMPRESSED_SIZE_MAX, csize |-> f] :
     f \in {g \in [1..COMPRESSED_SIZE_MAX -> 1..COMPRESSED_SIZE_MAX] :
              \A u \in 1..COMPRESSED_SIZE_MAX : g[u] \in CompressedSizes(u)}}

\* the k-th byte the caller writes
InputByte(k) == k % 256

\* LZMA2Writer::new(Vec::new(), &options)
LZMA2Writer_new_call ==
  \E options \in LZMA2Options, profile \in LZMA2Profiles :
    /\ lzma2_writer = LZMA2Writer_new(options)
    /\ lzma2_test = [pc |-> "open", options |-> options, profile |-> profile,
                     accepted |-> 0, op |-> "new", emitted |-> 0]

\* writer.write_all(buf)
LZMA2Writer_write_call(n) ==
  /\ lzma2_test.pc = "open"
  /\ lzma2_test.accepted + n <= MaxInput
  /\ LET buf == [k \in 1..n |-> InputByte(lzma2_test.accepted + k)]
     IN lzma2_writer' = LZMA2Writer_write(lzma2_writer, buf, lzma2_test.profile)
  /\ lzma2_test' = [lzma2_test EXCEPT !.accepted = @ + n, !.op = "write",
                                      !.emitted = Len(lzma2_writer'.out) - Len(lzma2_writer.out)]
  /\ UNCHANGED <<mtVars, rtVars, zipVars, ioVars, unitVars>>

\* writer.flush()
LZMA2Writer_flush_call ==
  /\ lzma2_test.pc = "open"
  /\ lzma2_writer' = LZMA2Writer_flush(lzma2_writer, lzma2_test.profile)
  /\ lzma2_test' = [lzma2_test EXCEPT !.op = "flush",
                                      !.emitted = Len(lzma2_writer'.out) - Len(lzma2_writer.out)]
  /\ UNCHANGED <<mtVars, rtVars, zipVars, ioVars, unitVars>>

\* writer.finish(): the writer is consumed, its sink returned
LZMA2Writer_finish_call ==
  /\ lzma2_test.pc = "open"
  /\ lzma2_writer' = LZMA2Writer_finish(lzma2_writer, lzma2_test.profile)
  /\ lzma2_test' = [lzma2_test EXCEPT !.pc = "finished", !.op = "finish",
                                      !.emitted = Len(lzma2_writer'.out) - Len(lzma2_writer.out)]
  /\ UNCHANGED <<mtVars, rtVars, zipVars, ioVars, unitVars>>

InitLZMA2 == LZMA2Writer_new_call /\ IdleWriterMT /\ NoRoundTrip /\ NoLZIPWriter /\ NoIO /\ NoUnits

NextLZMA2 ==
  \/ \E n \in 0..(COMPRESSED_SIZE_MAX + 1) : LZMA2Writer_write_call(n)
  \/ LZMA2Writer_flush_call
  \/ LZMA2Writer_finish_call

SpecLZMA2 == InitLZMA2 /\ [][NextLZMA2]_vars

(***************************************************************************)
(* The header of an LZMA chunk at the sizes of the program: write_lzma is  *)
(* applied, up to the payload, to a writer in each state it can be in and  *)
(* to uncompressed sizes of up to 2^21 and compressed sizes of up to 2^16. *)
(***************************************************************************)

\* the uncompressed and compressed sizes passed to write_lzma
UncompressedSizes == {1, 2, 256, 257, 65536, 65537, 1048576, 2097151, 2097152}
CompressedSizes16 == {1, 2, 256, 257, 65535, 65536}

\* LZMAOptions with lc, lp and pb over their ranges
HeaderOptions ==
  {[lc |-> lc, lp |-> lp, pb |-> pb, preset_dict |-> d] :
     lc \in {0, LC_DEFAULT, 8}, lp \in {LP_DEFAULT, 4}, pb \in {0, PB_DEFAULT, 4},
     d \in {None, Some(<<1>>)}}

\* the writer when new, after an uncompressed chunk, after an LZMA chunk, and
\* after an LZMA chunk and an uncompressed one
WritersWith(options) ==
  LET fresh == [LZMA2Writer_new(options) EXCEPT !.window = <<0, 0, 0, 0, 0>>]
      after_lzma == write_lzma(fresh, 4, 1)
  IN {[w EXCEPT !.window = <<>>, !.out = <<>>] :
        w \in {fresh, write_uncompressed(fresh, 1), after_lzma,
               write_uncompressed(after_lzma, 1)}}

InitChunkHeader ==
  /\ \E options \in HeaderOptions, u \in UncompressedSizes, c \in CompressedSizes16 :
       /\ lzma2_writer \in WritersWith(options)
       /\ lzma2_test = [pc |-> "chunk", options |-> options, before |-> lzma2_writer,
                        uncompressed_size |-> u, compressed_size |-> c,
                        header |-> <<>>]
  /\ IdleWriterMT
  /\ NoRoundTrip
  /\ NoLZIPWriter /\ NoIO /\ NoUnits

\* write_lzma(uncompressed_size, compressed_size) without the payload
write_lzma_call ==
  /\ lzma2_test.pc = "chunk"
  /\ lzma2_test' =
       [lzma2_test EXCEPT !.pc = "written",
                          !.header = chunk_header(lzma2_writer, lzma2_test.uncompressed_size,
                                                  lzma2_test.compressed_size)]
  /\ lzma2_writer' = resets_written(lzma2_writer)
  /\ UNCHANGED <<mtVars, rtVars, zipVars, ioVars, unitVars>>

NextChunkHeader == write_lzma_call

SpecChunkHeader == InitChunkHeader /\ [][NextChunkHeader]_vars

(***************************************************************************)
(* Properties of LZMA2WriterMT                                             *)
(***************************************************************************)

\* the compressed results written to the sink, in the order written
Written == SelectSeq(inner, LAMBDA e : e.seq # -1)

\* the call returned and no other call has begun since
Returned(op) ==
  /\ ctl.pc \in {"idle", "dropping", "gone"}
  /\ ret.op = op

RECURSIVE ConcatData(_)
ConcatData(units) ==
  IF units = <<>> THEN <<>> ELSE Head(units).data \o ConcatData(Tail(units))

RECURSIVE ConcatBytes(_)
ConcatBytes(entries) ==
  IF entries = <<>> THEN <<>> ELSE Head(entries).bytes \o ConcatBytes(Tail(entries))

\* the sink as one sequence of chunks
SinkChunks == ConcatBytes(inner)

\* what an LZMA2 reader makes of a sequence of chunks: the payloads up to the
\* end-of-stream byte
RECURSIVE lzma2_decode(_)
lzma2_decode(chunks) ==
  IF chunks = <<>> \/ Head(chunks).control = 0 THEN <<>>
  ELSE Head(chunks).data \o lzma2_decode(Tail(chunks))

\* the input bytes 1..n
Input(n) == [i \in 1..n |-> i]

\* the output of the single-threaded LZMA2Writer for the same input
SingleThreaded(input) ==
  LZMA2Writer_finish(
    LZMA2Writer_write(LZMA2Writer_new(options_with_reset), input, enc_profile),
    enc_profile).out

\* C2: results reach the sink strictly in sequence-number order, with no gap
\* and no duplicate: the k-th result written carries sequence number k - 1,
\* and a result held in the out-of-order buffer is one whose turn has not
\* come (every result before it is written first).
C2_InOrder ==
  /\ \A k \in 1..Len(Written) : Written[k].seq = k - 1
  /\ \A q \in DOMAIN out_of_order_chunks :
       /\ out_of_order_chunks[q].seq = q
       /\ q >= next_sequence_to_write
       /\ q >= Len(Written)
  /\ Len(Written) <= next_sequence_to_write

\* C2 witness: an early result waits in the out-of-order buffer while the
\* results before it have been written in order
C2_Witness ==
  /\ Len(Written) >= 2
  /\ DOMAIN out_of_order_chunks # {}
  /\ \E q \in DOMAIN out_of_order_chunks : q > next_sequence_to_write

\* C3: a successful write takes its whole buffer; the work units, in sequence
\* order, followed by the pending unit are exactly the bytes taken, in
\* order; after a successful finish the sink decodes to those bytes, as the
\* output of the single-threaded writer does.
C3_NoByteLost ==
  /\ \A k \in 1..Len(dispatched) : dispatched[k].seq = k - 1
  /\ ConcatData(dispatched) \o current_work_unit = Input(accepted)
  /\ (Returned("write") /\ ret.res.ok) => ret.res.n = ret.arg
  /\ (Returned("finish") /\ ret.res.ok) =>
       /\ current_work_unit = <<>>
       /\ lzma2_decode(SinkChunks) = Input(accepted)
       /\ lzma2_decode(SinkChunks) = lzma2_decode(SingleThreaded(Input(accepted)))

\* C3 witness: finish has succeeded on an input that was split over several
\* units, the last of them a partial one, by writes that crossed unit borders
C3_Witness ==
  /\ Returned("finish") /\ ret.res.ok
  /\ Len(dispatched) >= 3
  /\ Len(dispatched[Len(dispatched)].data) < stream_size
  /\ accepted > 2 * stream_size

\* C4 (as claimed): a write of a non-empty buffer, a flush or a finish that
\* begins after a worker has reported an error fails with that first error.
C4_SameErrorEveryCall ==
  (/\ ctl.pc \in {"idle", "dropping", "gone"}
   /\ ret.op \in {"write", "flush", "finish"}
   /\ ret.reported # None
   /\ (ret.op = "write" => ret.arg > 0))
  => (~ret.res.ok /\ ret.res.err = ret.reported)

\* units dispatched whose result is not yet in the sink
InFlight == next_sequence_to_dispatch - Len(Written)

\* C5 (as claimed): at most 4 units are in flight
C5_AtMostFourInFlight == InFlight <= QUEUE_LIMIT

\* C5 (amended): at most 4 units wait in the work queue; the units taken by
\* workers and the results not yet written are not counted.
C5_QueueBounded == Len(work_queue) <= QUEUE_LIMIT

\* C5 witness: the queue is full and write waits for a result before it pushes
C5_Witness ==
  /\ Len(work_queue) = QUEUE_LIMIT
  /\ ctl.pc = "g_recv" /\ ctl.ctx = "send" /\ ctl.op = "write"
  /\ current_work_unit # <<>>

\* C6: when flush or finish returns Ok, every unit dispatched so far, the
\* pending one included, has its result in the sink: nothing is pending, the
\* out-of-order buffer is empty and next_sequence_to_write has caught up.
C6_Drained ==
  ((Returned("flush") \/ Returned("finish")) /\ ret.res.ok) =>
     /\ next_sequence_to_write = next_sequence_to_dispatch
     /\ current_work_unit = <<>>
     /\ DOMAIN out_of_order_chunks = {}
     /\ Len(Written) = next_sequence_to_dispatch
     /\ Len(dispatched) = next_sequence_to_dispatch

\* C6 witness: flush has returned Ok after dispatching a partial unit
C6_Witness ==
  /\ Returned("flush") /\ ret.res.ok
  /\ Len(dispatched) >= 2
  /\ Len(dispatched[Len(dispatched)].data) < stream_size

\* number of end-of-stream bytes in a sequence of chunks
RECURSIVE CountEnd(_)
CountEnd(chunks) ==
  IF chunks = <<>> THEN 0
  ELSE (IF Head(chunks).control = 0 THEN 1 ELSE 0) + CountEnd(Tail(chunks))

\* C7: after a successful finish the sink holds exactly one end-of-stream
\* byte, as its last byte and after every result; until then it holds none:
\* no result of a worker contains one and write and flush write none.
C7_EndOnce ==
  /\ \A k \in 1..Len(inner) : inner[k].seq # -1 => CountEnd(inner[k].bytes) = 0
  /\ \A k \in 1..Len(result_ch) : CountEnd(result_ch[k].bytes) = 0
  /\ IF ret.op = "finish" /\ ret.res.ok /\ ctl.pc \in {"dropping", "gone"}
     THEN /\ CountEnd(SinkChunks) = 1
          /\ inner[Len(inner)] = EndMarker
          /\ Len(Written) = next_sequence_to_dispatch
     ELSE CountEnd(SinkChunks) = 0

\* C7 witness: finish has succeeded after results were written
C7_Witness ==
  /\ ret.op = "finish" /\ ret.res.ok /\ ctl.pc = "gone"
  /\ Len(Written) >= 2

\* the first chunk of a sub-stream resets the dictionary
ResetsDictionary(bytes) ==
  /\ bytes # <<>>
  /\ \/ bytes[1].control = 1
     \/ /\ bytes[1].control \in 224..255
        /\ bytes[1].props = get_props(PB_DEFAULT, LP_DEFAULT, LC_DEFAULT)

\* C8: every result of a worker is an independent sub-stream: its first chunk
\* signals a dictionary reset (control 0x01, or an LZMA chunk of reset level
\* 11 with the properties byte), and it holds the bytes of its own unit only.
C8_IndependentSubStreams ==
  /\ \A k \in 1..Len(result_ch) :
       /\ ResetsDictionary(result_ch[k].bytes)
       /\ lzma2_decode(result_ch[k].bytes) = dispatched[result_ch[k].seq + 1].data
  /\ \A q \in DOMAIN out_of_order_chunks :
       ResetsDictionary(out_of_order_chunks[q].bytes)
  /\ \A k \in 1..Len(Written) :
       /\ ResetsDictionary(Written[k].bytes)
       /\ lzma2_decode(Written[k].bytes) = dispatched[Written[k].seq + 1].data

\* C8 witness: the sink holds a sub-stream that begins with an LZMA chunk and
\* one that begins with an uncompressed chunk
C8_Witness ==
  /\ \E k \in 1..Len(Written) : Written[k].bytes[1].control = 224
  /\ \E k \in 1..Len(Written) : Written[k].bytes[1].control = 1

\* the step is a call of write with a non-empty buffer
WriteStep ==
  /\ ctl.pc = "idle"
  /\ \/ ctl'.op = "write"
     \/ ret' # ret /\ ret'.op = "write" /\ ret'.arg > 0

\* C9: a write of a non-empty buffer to a writer that is not in the Writing
\* state fails with InvalidInput and changes nothing: no byte is accepted,
\* nothing is dispatched, nothing is written.
C9_WriteAfterFinish ==
  [][(WriteStep /\ state # "Writing") =>
       /\ ctl' = Idle
       /\ ~ret'.res.ok /\ ret'.res.err.kind = "InvalidInput"
       /\ UNCHANGED <<inner, current_work_unit, next_sequence_to_dispatch,
                      next_sequence_to_write, out_of_order_chunks, work_queue,
                      dispatched, state, error_store, result_ch>>]_vars

\* C9 witness: a write of a non-empty buffer has been refused in state Error
C9_Witness ==
  /\ state = "Error"
  /\ Returned("write") /\ ret.arg > 0
  /\ ~ret.res.ok /\ ret.res.err.kind = "InvalidInput"

\* the writer has been dropped, after finish or between two calls
Dropped == ctl.pc = "gone"

AllWorkersExited == \A w \in Workers : workers[w].pc = "done"

\* C10: once the writer is dropped the shutdown flag is set and the queue is
\* closed; every worker thread then exits eventually; a worker that has seen
\* the flag set or the queue closed and drained has exited and takes no unit
\* again; and no result still in flight reaches the sink.
C10_Shutdown ==
  /\ [](Dropped => (shutdown_flag /\ queue_closed))
  /\ Dropped ~> AllWorkersExited
  /\ [][\A w \in Workers :
          /\ workers[w].pc = "done" => workers'[w] = workers[w]
          /\ (workers[w].pc = "top" /\ shutdown_flag /\ workers'[w] # workers[w])
               => workers'[w].pc = "done"
          /\ (workers[w].pc = "steal" /\ work_queue = <<>> /\ workers'[w] # workers[w])
               => (queue_closed /\ workers'[w].pc = "done")]_vars
  /\ [][Dropped => inner' = inner]_vars

\* C10 witness: the writer was dropped while a unit was queued and a result
\* was in the channel, and every worker has exited
C10_Witness ==
  /\ Dropped
  /\ AllWorkersExited
  /\ result_ch # <<>>
  /\ next_sequence_to_dispatch > Len(Written) + Len(result_ch)
  /\ ret.op # "finish"

(***************************************************************************)
(* Properties of the LZMA round trip                                       *)
(***************************************************************************)

\* C1: for every data and every preset 0..9, what LZMAWriter::new_no_header
\* with the end marker, write_all and finish produce is decoded by
\* LZMAReader::new, given the same lc, lp, pb, dict_size and the length of
\* the data, to exactly the data: no call fails, what has been read is at any
\* time a prefix of the data, and at the end of read_to_end it is the data.
C1_RoundTrip ==
  /\ test.pc # "failed"
  /\ test.pc \in {"read", "done"} =>
       /\ Len(test.uncompressed) <= Len(test.data)
       /\ test.uncompressed = SubSeq(test.data, 1, Len(test.uncompressed))
       /\ lzma_reader.remaining_size = Len(test.data) - Len(test.uncompressed)
  /\ test.pc = "done" => test.uncompressed = test.data

\* C1 witness: a round trip is complete whose data was coded with a match
\* that overlaps itself and was read back in several reads, the end marker
\* left unread behind it
C1_Witness ==
  /\ test.pc = "done"
  /\ Len(test.data) = MaxLen
  /\ test.uncompressed = test.data
  /\ test.reads >= 2
  /\ \E k \in 1..Len(test.compressed) :
       /\ test.compressed[k].t = "match"
       /\ test.compressed[k].dist >= 0
       /\ test.compressed[k].len > test.compressed[k].dist + 1
  /\ test.compressed[Len(test.compressed)].dist = END_MARKER_DIST
  /\ lzma_reader.rc.pos = Len(test.compressed) - 1

(***************************************************************************)
(* Properties of LZMA2WriterMT::new and of the sizes of the work units     *)
(***************************************************************************)

\* C11: the effective stream size is the larger of the request and
\* MIN_STREAM_SIZE, the number of workers is the request clamped to
\* [1, 256]; a unit dispatched by write holds exactly stream_size bytes, a
\* shorter one is dispatched by flush or finish only, none is empty or longer,
\* and the pending unit never exceeds stream_size.
C11_StreamSizeEnforced ==
  /\ stream_size = IF caller.stream_size < MIN_STREAM_SIZE
                   THEN MIN_STREAM_SIZE ELSE caller.stream_size
  /\ Cardinality(Workers) = IF caller.num_workers < 1 THEN 1
                            ELSE IF caller.num_workers > 256 THEN 256
                            ELSE caller.num_workers
  /\ Len(current_work_unit) <= stream_size
  /\ \A k \in 1..Len(dispatched) :
       /\ Len(dispatched[k].data) >= 1
       /\ Len(dispatched[k].data) <= stream_size
       /\ dispatched[k].by = "write" => Len(dispatched[k].data) = stream_size
       /\ Len(dispatched[k].data) < stream_size => dispatched[k].by \in {"flush", "finish"}

\* C11 witness: a writer asked for a stream size below the minimum and for no
\* worker has dispatched a full unit from write and a shorter one from flush
C11_Witness ==
  /\ caller.stream_size < MIN_STREAM_SIZE
  /\ caller.num_workers = 0
  /\ \E k \in 1..Len(dispatched) :
       dispatched[k].by = "write" /\ Len(dispatched[k].data) = MIN_STREAM_SIZE
  /\ \E k \in 1..Len(dispatched) :
       dispatched[k].by = "flush" /\ Len(dispatched[k].data) < stream_size


(***************************************************************************)
(* Properties of the single-threaded LZMA2Writer                           *)
(***************************************************************************)

\* what the writer has written: the chunks and, after finish, the last 0x00
Out == lzma2_writer.out

\* the chunks the writer has emitted
Chunks == SelectSeq(Out, LAMBDA chunk : chunk.control # 0)

IsLZMA(chunk) == chunk.control >= 128
IsUncompressed(chunk) == chunk.control \in {1, 2}

\* bits 6:5 of the control byte of an LZMA chunk
reset_level(chunk) == (chunk.control \div 32) % 4

\* the chunk is an LZMA chunk whose header ends in the properties byte of
\* the run's options
CarriesProps(chunk) ==
  /\ Len(chunk.header) = 6
  /\ chunk.header[6] = (lzma2_test.options.pb * 5 + lzma2_test.options.lp) * 9
                         + lzma2_test.options.lc

C13_ResetsPresent ==
  \A k \in 1..Len(Chunks) :
    IsLZMA(Chunks[k]) =>
      /\ (k > 1 /\ IsUncompressed(Chunks[k - 1])) => reset_level(Chunks[k]) >= 1
      /\ (\A j \in 1..(k - 1) : ~IsLZMA(Chunks[j])) =>
           reset_level(Chunks[k]) \in {2, 3} /\ CarriesProps(Chunks[k])

\* an uncompressed chunk came first, the first LZMA chunk after it, then an
\* uncompressed chunk again and an LZMA chunk with a state reset alone
C13_Witness ==
  /\ Len(Chunks) >= 4
  /\ IsUncompressed(Chunks[1])
  /\ IsLZMA(Chunks[2]) /\ reset_level(Chunks[2]) = 2
  /\ IsUncompressed(Chunks[3])
  /\ IsLZMA(Chunks[4]) /\ reset_level(Chunks[4]) = 1 /\ Len(Chunks[4].header) = 5

\* the sum of the uncompressed sizes of a sequence of chunks
RECURSIVE SumUncompressed(_)
SumUncompressed(chunks) ==
  IF chunks = <<>> THEN 0 ELSE Head(chunks).usize + SumUncompressed(Tail(chunks))

\* the bytes the caller has written, in order
Accepted == [k \in 1..lzma2_test.accepted |-> InputByte(k)]

\* the bytes of the input that the k-th chunk covers
Covered(k) ==
  LET start == SumUncompressed(SubSeq(Chunks, 1, k - 1))
  IN [j \in 1..Chunks[k].usize |-> InputByte(start + j)]

\* the length of a chunk in the stream: header and payload
chunk_len(chunk) == Len(chunk.header) + chunk.csize

C15_EndOfStream ==
  /\ lzma2_writer.pending_size >= 0
  /\ SumUncompressed(Chunks) + lzma2_writer.pending_size = lzma2_test.accepted
  /\ lzma2_test.op \in {"flush", "finish"} => lzma2_writer.pending_size = 0
  /\ lzma2_test.pc = "open" => \A k \in 1..Len(Out) : Out[k].control # 0
  /\ lzma2_test.pc = "finished" =>
       /\ Len(Out) = Len(Chunks) + 1
       /\ Out[Len(Out)].header = <<0>>
       /\ SumUncompressed(Chunks) = lzma2_test.accepted

\* finish found bytes pending after earlier chunks, emitted them in a chunk
\* and wrote the end-of-stream byte
C15_Witness ==
  /\ lzma2_test.op = "finish"
  /\ lzma2_test.emitted = 2
  /\ Len(Chunks) >= 2
  /\ Out[Len(Out)].header = <<0>>

\* the sizes of the fallbacks write_uncompressed is applied to: a full
\* chunk, a byte more, and two full chunks and a byte
FallbackSizes == {COMPRESSED_SIZE_MAX, COMPRESSED_SIZE_MAX + 1, 2 * COMPRESSED_SIZE_MAX + 1}

\* what write_uncompressed writes when the writer, as it is, falls back on
\* n bytes
Fallback(n) ==
  write_uncompressed([lzma2_writer EXCEPT !.window = [k \in 1..n |-> InputByte(k)],
                                          !.out = <<>>], n).out

ResetLevel(w) ==
  IF w.dict_reset_needed THEN 3
  ELSE IF w.props_needed THEN 2
  ELSE IF w.state_reset_needed THEN 1
  ELSE 0

\* C17: the header write_lzma writes for an uncompressed size u of 1..2^21
\* and a compressed size c of 1..2^16 has bit 7 of the control byte set, the
\* reset level in bits 6:5, u - 1 in the low five bits of the control byte
\* and the next two bytes, c - 1 in the two bytes after them, and is 6 bytes
\* long, ending in the properties byte (pb*5 + lp)*9 + lc, exactly when the
\* reset level is 10 or 11, and 5 bytes long otherwise.
C17_LzmaChunkHeader ==
  lzma2_test.pc = "written" =>
    LET header == lzma2_test.header
        control == header[1]
        level == ResetLevel(lzma2_test.before)
        options == lzma2_test.options
    IN /\ \A k \in 1..Len(header) : header[k] \in 0..255
       /\ control \div 128 = 1
       /\ (control \div 32) % 4 = level
       /\ (control % 32) * 65536 + header[2] * 256 + header[3]
            = lzma2_test.uncompressed_size - 1
       /\ header[4] * 256 + header[5] = lzma2_test.compressed_size - 1
       /\ IF level \in {2, 3}
          THEN Len(header) = 6
               /\ header[6] = (options.pb * 5 + options.lp) * 9 + options.lc
          ELSE Len(header) = 5

\* the header of a chunk of 2^21 bytes compressed to 2^16, with every reset
C17_Witness ==
  /\ lzma2_test.pc = "written"
  /\ lzma2_test.uncompressed_size = 2097152
  /\ lzma2_test.compressed_size = 65536
  /\ lzma2_test.header = <<255, 255, 255, 255, 255, 224>>

(***************************************************************************)
(* Properties of the .lzma header                                          *)
(***************************************************************************)

\* a writer was constructed, and it wrote a header
HeaderWritten == test.pc \notin {"new", "rejected"} /\ test.use_header

\* the size the header announces
AnnouncedSize == IF test.expected = None THEN U64_MAX ELSE test.expected.some

\* the header is the 13 bytes of the format: the properties byte, dict_size
\* in 4 bytes and the size in 8 bytes, least significant byte first, or
\* eight bytes 0xFF when no size is given
HeaderAsSpecified ==
  /\ Len(test.header) = 13
  /\ test.header[1] = (test.option.pb * 5 + test.option.lp) * 9 + test.option.lc
  /\ \A k \in 1..13 : test.header[k] \in 0..255
  /\ test.header[2] + 256 * test.header[3] + 65536 * test.header[4]
       + 16777216 * test.header[5] = test.option.dict_size
  /\ IF test.expected = None
     THEN \A k \in 6..13 : test.header[k] = 255
     ELSE /\ test.header[6] + 256 * test.header[7] + 65536 * test.header[8]
               + 16777216 * test.header[9] = test.expected.some
          /\ \A k \in 10..13 : test.header[k] = 0

\* the reader was made, with the parameters the writer was given
ParsedBack ==
  /\ test.pc = "read"
  /\ lzma_reader.lzma.lc = test.option.lc
  /\ lzma_reader.lzma.lp = test.option.lp
  /\ lzma_reader.lzma.pb = test.option.pb
  /\ read_u32(test.header, 1) = test.option.dict_size
  /\ lzma_reader.remaining_size = AnnouncedSize

\* sizes of more than one byte go through the header and back
LargeSizesParseBack ==
  \A size \in {255, 256, 65536, 16909060, U64_MAX - 1} :
    LET header == write_header(test.option.lc, test.option.dict_size, Some(size))
    IN /\ Len(header) = 13
       /\ read_u64(header, 5) = size
       /\ read_u32(header, 1) = test.option.dict_size

\* new_mem_limit has returned
ReaderCalled == test.pc \in {"read", "unread"}

\* C18 as stated: for every dict_size the writer writes the 13 bytes and
\* new_mem_limit parses them back to the same lc, lp, pb, dict_size and size.
C18_HeaderParsesBack ==
  /\ HeaderWritten => HeaderAsSpecified /\ LargeSizesParseBack
  /\ ReaderCalled => ParsedBack

\* the memory, in KiB, new_mem_limit needs for the options of the run
NeedMem == get_memory_usage(test.option.dict_size, test.option.lc, test.option.lp).n

\* C18, amended: the writer writes the 13 bytes for every dict_size;
\* new_mem_limit parses them back to the same lc, lp, pb, dict_size and size
\* when dict_size is at most DICT_SIZE_MAX and mem_limit_kb is at least the
\* memory needed; it fails with InvalidInput for a greater dict_size, and
\* else with OutOfMemory for a smaller limit.
C18_HeaderRoundTrip ==
  /\ HeaderWritten => HeaderAsSpecified /\ LargeSizesParseBack
  /\ ReaderCalled =>
       IF test.option.dict_size > DICT_SIZE_MAX
       THEN test.pc = "unread" /\ test.res.err.kind = "InvalidInput"
       ELSE IF test.mem_limit_kb < NeedMem
       THEN test.pc = "unread" /\ test.res.err.kind = "OutOfMemory"
       ELSE ParsedBack

\* a header with the greatest lc, lp and pb, a dict_size of four different
\* bytes and a size of 2 has been parsed back
C18_Witness ==
  /\ test.header = <<224, 4, 3, 2, 1, 2, 0, 0, 0, 0, 0, 0, 0>>
  /\ ParsedBack
  /\ lzma_reader.lzma.lc = 8 /\ lzma_reader.lzma.lp = 4 /\ lzma_reader.lzma.pb = 4
  /\ lzma_reader.remaining_size = 2

\* the payload of a finished writer ends in the end marker
EndMarkerWritten ==
  /\ Len(test.compressed) >= 1
  /\ test.compressed[Len(test.compressed)] = Match(END_MARKER_DIST, MATCH_LEN_MIN)

\* C19: when a writer that wrote a header has finished, the size field of
\* the header is all ones exactly when the payload ends in the end marker.
C19_EndMarkerIffSizeUnknown ==
  (test.pc = "open" /\ test.use_header) =>
    ((\A k \in 6..13 : test.header[k] = 255) <=> EndMarkerWritten)

\* C20: a writer asked for with a preset dictionary and with a header is
\* refused with Unsupported, and nothing has been written to the sink.
C20_PresetDictWithHeader ==
  (test.pc # "new" /\ test.use_header /\ test.option.preset_dict # None) =>
    /\ test.pc = "rejected"
    /\ test.res.err.kind = "Unsupported"
    /\ test.header = <<>>
    /\ lzma_writer = None

\* new_use_header has refused options with a preset dictionary
C20_Witness ==
  /\ test.pc = "rejected"
  /\ test.how = "new_use_header"
  /\ test.option.preset_dict # None
  /\ test.res.err.kind = "Unsupported"

(***************************************************************************)
(* Properties of the constructors of LZMAReader                            *)
(***************************************************************************)

\* a constructor has returned
Called == test.pc \in {"constructed", "rejected"}

\* pb, lp and lc of a properties byte, as construct1 takes it apart
props_pb(props) == props \div (9 * 5)
props_lp(props) == (props % (9 * 5)) \div 9
props_lc(props) == props % 9

\* the literal parameters of the call
ArgLc == IF test.how = "new" THEN test.lc ELSE props_lc(test.props)
ArgLp == IF test.how = "new" THEN test.lp ELSE props_lp(test.props)
ArgPb == IF test.how = "new" THEN test.pb ELSE props_pb(test.props)

RejectedWith(kind) ==
  /\ test.pc = "rejected"
  /\ ~test.res.ok
  /\ test.res.err.kind = kind
  /\ lzma_reader = None

\* C21: a constructor of LZMAReader called with lc + lp > 4, lc > 8, lp > 4
\* or pb > 4 fails with InvalidInput.
C21_LiteralParametersRejected ==
  (Called /\ (ArgLc + ArgLp > 4 \/ ArgLc > 8 \/ ArgLp > 4 \/ ArgPb > 4))
    => RejectedWith("InvalidInput")

\* C22: a constructor of LZMAReader called with a dict_size below 4096 or
\* above 0xFFFFFFF0 (DICT_SIZE_MAX) fails with InvalidInput.
C22_DictSizeOutOfRangeRejected ==
  (Called /\ (test.dict_size < DICT_SIZE_MIN \/ test.dict_size > DICT_SIZE_MAX))
    => RejectedWith("InvalidInput")

\* the header given to new_mem_limit is one the reader accepts: a properties
\* byte of at most (4 * 5 + 4) * 9 + 8 and a dict_size of at most
\* DICT_SIZE_MAX
HeaderValid == test.props <= 224 /\ test.dict_size <= DICT_SIZE_MAX

\* dict_size raised to 4096 and rounded up to a multiple of 16
RoundUp16(dict_size) ==
  (((IF dict_size < 4096 THEN 4096 ELSE dict_size) + 15) \div 16) * 16

\* the KiB a decoder of the header's dict_size, lc and lp needs
RequiredKiB ==
  10 + RoundUp16(test.dict_size) \div 1024
     + ((2 * 768) * 2^(props_lc(test.props) + props_lp(test.props))) \div 1024

OutOfMemory == ~test.res.ok /\ test.res.err.kind = "OutOfMemory"

\* C23: new_mem_limit fails with OutOfMemory, and constructs no decoder,
\* exactly when the header is valid and mem_limit_kb is below the KiB
\* required; no step of that computation exceeds u32::MAX on a valid header;
\* a limit of u32::MAX never gives OutOfMemory.
C23_MemLimit ==
  (Called /\ test.how = "new_mem_limit") =>
    /\ OutOfMemory <=> (HeaderValid /\ test.mem_limit_kb < RequiredKiB)
    /\ OutOfMemory => (test.pc = "rejected" /\ lzma_reader = None)
    /\ HeaderValid =>
         /\ (IF test.dict_size < 4096 THEN 4096 ELSE test.dict_size) + 15 <= U32_MAX
         /\ (2 * 768) * 2^(props_lc(test.props) + props_lp(test.props)) <= U32_MAX
         /\ RequiredKiB <= U32_MAX
    /\ test.mem_limit_kb = U32_MAX => ~OutOfMemory

\* C23 witness: a limit one KiB short of what an 8 MiB dictionary needs is
\* refused
C23_Witness ==
  /\ Called
  /\ test.how = "new_mem_limit"
  /\ test.dict_size = 8388608
  /\ HeaderValid
  /\ test.mem_limit_kb = RequiredKiB - 1
  /\ OutOfMemory
  /\ lzma_reader = None

(***************************************************************************)
(* Properties of LZMAReader::read_decode                                   *)
(***************************************************************************)

\* a call of read on a non-empty buffer that gets as far as decode
ReadDecodes ==
  /\ test.pc = "read"
  /\ test'.reads = test.reads + 1
  /\ test'.len > 0
  /\ ~lzma_reader.end_reached

\* what decode returns in that call
Decoded ==
  decode([lzma_reader EXCEPT
            !.lz = set_limit(@, copy_size_max(lzma_reader.remaining_size, test'.len))])

SizeUnknown == test.uncomp_size = U64_MAX

\* the Result of the call is the error of decode
DecodeErrorReturned == ~test'.res.ok /\ test'.res.err.msg = "decode"

\* C24: when decode fails in a call of read, the call goes on to a normal
\* end of stream (end_reached set) only if the size is unknown and the end
\* marker was detected; otherwise it returns the error and end_reached
\* stays false.
C24_RelaxedEnd ==
  [][ReadDecodes /\ ~Decoded.ok =>
       IF SizeUnknown /\ end_marker_detected(Decoded.r.lzma)
       THEN ~DecodeErrorReturned /\ lzma_reader'.end_reached
       ELSE DecodeErrorReturned /\ ~lzma_reader'.end_reached]_vars

\* C24 witness: the size was unknown, the end marker was met, and the read
\* returned the last bytes of the data
C24_Witness ==
  /\ test.pc = "read"
  /\ test.reads >= 1
  /\ SizeUnknown
  /\ test.res.ok
  /\ lzma_reader.end_reached
  /\ end_marker_detected(lzma_reader.lzma)
  /\ test.uncompressed = test.data
  /\ test.data # <<>>

\* a reader exists and was given a known size
SizeKnown == test.pc \in {"read", "failed"} /\ test.uncomp_size <= U64_MAX \div 2

\* the number of bytes the calls of read have returned
BytesReturned == Len(test.uncompressed)

\* a call of read
ReadCalled == test.pc = "read" /\ test'.reads = test.reads + 1

EndNotFinished ==
  /\ test.pc = "failed"
  /\ test.res.err.kind = "InvalidData"
  /\ test.res.err.msg = "end reached but not decoder finished"

\* C25: with a known size n the reads return no more than n bytes in total
\* and remaining_size, which never goes below 0, is what is left of n; once
\* n bytes are returned or the end is reached, a read returns 0 and decodes
\* nothing; an end reached with match bytes pending is InvalidData.
C25_KnownSize ==
  /\ [](SizeKnown =>
          /\ BytesReturned <= test.uncomp_size
          /\ lzma_reader.remaining_size >= 0
          /\ test.pc = "read" =>
               lzma_reader.remaining_size = test.uncomp_size - BytesReturned
          /\ (lzma_reader.end_reached /\ has_pending(lzma_reader.lz)) => EndNotFinished)
  /\ [][(SizeKnown /\ ReadCalled
           /\ (lzma_reader.end_reached \/ BytesReturned = test.uncomp_size)) =>
          /\ test'.res = Ok(0)
          /\ test'.uncompressed = test.uncompressed
          /\ lzma_reader'.rc = lzma_reader.rc
          /\ lzma_reader'.lz.buf = lzma_reader.lz.buf]_vars

\* C25 witness: the announced size ends in the middle of a match, and the
\* read that reaches it fails
C25_Witness ==
  /\ SizeKnown
  /\ test.uncomp_size < Len(test.data)
  /\ lzma_reader.end_reached
  /\ lzma_reader.remaining_size = 0
  /\ has_pending(lzma_reader.lz)
  /\ EndNotFinished

\* the other case of C25: all n bytes are returned and two more reads
\* return 0
KnownSizeReadOut ==
  /\ SizeKnown
  /\ test.pc = "read"
  /\ test.uncomp_size > 0
  /\ BytesReturned = test.uncomp_size
  /\ test.reads = MaxReads
  /\ test.res = Ok(0)

(***************************************************************************)
(* Properties of the LZIP container                                        *)
(***************************************************************************)

\* decode_dict_size has returned
DictSizeDecoded == lzip_test.pc = "decoded"

\* 2^base - frac * 2^(base-4)
DictSizeValue(base, frac) == 2 ^ base - frac * 2 ^ (base - 4)

\* C28: for every byte e, with base = e & 0x1F and frac = e >> 5,
\* decode_dict_size(e) returns 2^base - frac * 2^(base-4) exactly when
\* 12 <= base <= 29 and that value lies between 4096 and 512 MiB, and fails
\* with InvalidData otherwise; 0xD3 gives 320 KiB, 0x0C gives 4 KiB, 0x1D
\* gives 512 MiB, and 0x0B and 0x1E fail.
C28_DecodeDictSize ==
  DictSizeDecoded =>
    LET e == lzip_test.encoded
        base == e % 32
        frac == e \div 32
        res == lzip_test.res
    IN /\ IF /\ 12 <= base
             /\ base <= 29
             /\ DictSizeValue(base, frac) >= 4096
             /\ DictSizeValue(base, frac) <= 512 * 1024 * 1024
          THEN res = Ok(DictSizeValue(base, frac))
          ELSE ~res.ok /\ res.err.kind = "InvalidData"
       /\ e = 211 => res = Ok(320 * 1024)
       /\ e = 12 => res = Ok(4 * 1024)
       /\ e = 29 => res = Ok(512 * 1024 * 1024)
       /\ e \in {11, 30} => ~res.ok

\* C28 witness: 0xD3 has been decoded to 320 KiB
C28_Witness ==
  DictSizeDecoded /\ lzip_test.encoded = 211 /\ lzip_test.res = Ok(320 * 1024)

\* a base of 12 with a fraction falls below 4 KiB and has been refused
DictSizeBelowMinimumRefused ==
  DictSizeDecoded /\ lzip_test.encoded = 44 /\ ~lzip_test.res.ok
\* the bytes a raw LZMA stream stands for: the literals and the copies of
\* its symbols, up to the end marker
RECURSIVE Expand(_, _, _)
Expand(symbols, reps, out) ==
  IF symbols = <<>> THEN out
  ELSE LET s == Head(symbols)
           reps1 == update_reps(reps, s)
       IN IF s.t = "lit" THEN Expand(Tail(symbols), reps1, Append(out, s.byte))
          ELSE IF reps1[1] = END_MARKER_DIST THEN out
          ELSE Expand(Tail(symbols), reps1, copy_from_dict(out, reps1[1], s.len))

\* the sink is a sequence of members, each a header, an LZMA stream and a
\* trailer
Framed(sink) ==
  /\ Len(sink) % 3 = 0
  /\ \A i \in 1..Len(sink) :
       sink[i].kind = (IF i % 3 = 1 THEN "header"
                       ELSE IF i % 3 = 2 THEN "payload" ELSE "trailer")

MemberCount(sink) == Len(sink) \div 3

\* the parts of member k of the sink
MemberHeader(sink, k) == sink[3 * k - 2].bytes
MemberPayload(sink, k) == sink[3 * k - 1].bytes
MemberTrailer(sink, k) == sink[3 * k].bytes

\* the uncompressed bytes member k holds
MemberData(sink, k) == Expand(MemberPayload(sink, k), <<0, 0, 0, 0>>, <<>>)

\* the uncompressed bytes of the members k.. of the sink, in their order
RECURSIVE MembersData(_, _)
MembersData(sink, k) ==
  IF k > MemberCount(sink) THEN <<>>
  ELSE MemberData(sink, k) \o MembersData(sink, k + 1)

\* finish has returned the sink
LzipFinished == lzip_test.pc = "finished"

\* the bytes the writer has accepted
LzipWritten == SubSeq(lzip_test.data, 1, lzip_test.off)

\* the member size the writer was made with, of an unlimited member 0
LzipMemberSize ==
  IF lzip_test.options.member_size = None THEN 0
  ELSE lzip_test.options.member_size.some

\* C26: with a member size m, N > 0 bytes written in calls of any sizes and
\* then finish give exactly ceil(N/m) members; every member but the last
\* holds exactly m uncompressed bytes, the last between 1 and m, and none is
\* empty; with N = 0 finish gives exactly one member, which is empty.  The
\* members hold the bytes written, in their order.
C26_MemberSplit ==
  LzipFinished =>
    LET sink == lzip_test.sink
        N == lzip_test.off
        m == LzipMemberSize
        count == MemberCount(sink)
    IN /\ Framed(sink)
       /\ MembersData(sink, 1) = LzipWritten
       /\ N = 0 => count = 1 /\ MemberData(sink, 1) = <<>>
       /\ (N > 0 /\ m > 0) =>
            /\ count = (N + m - 1) \div m
            /\ \A k \in 1..(count - 1) : Len(MemberData(sink, k)) = m
            /\ Len(MemberData(sink, count)) \in 1..m

\* C26 witness: five bytes written with a member size of 2 have been
\* finished into three members, the last of one byte
C26_Witness ==
  /\ LzipFinished
  /\ LzipMemberSize = 2
  /\ lzip_test.off = 5
  /\ MemberCount(lzip_test.sink) = 3
  /\ Len(MemberData(lzip_test.sink, 3)) = 1

\* a write has gone over the end of a member into the next one
MemberClosedWithinWrite ==
  /\ lzip_test.op = "write"
  /\ lzip_test.res = Ok(3)
  /\ LzipMemberSize = 2
  /\ lzip_test.off = 4
\* CRC-32/ISO-HDLC of bytes, as the four bytes of the trailer
Crc32Bytes(bytes) == write_crc(crc_finalize(crc_update(CRC32_digest, bytes)))

\* the check value of CRC-32/ISO-HDLC: "123456789" gives 0xCBF43926, and
\* the empty string gives 0
Crc32CheckValue ==
  /\ Crc32Bytes(<<49, 50, 51, 52, 53, 54, 55, 56, 57>>) = <<38, 57, 244, 203>>
  /\ Crc32Bytes(<<>>) = <<0, 0, 0, 0>>

\* the members the writer has completed: those of the sink finish returned,
\* or of the sink the writer holds between two members
CompletedSink ==
  IF LzipFinished THEN lzip_test.sink
  ELSE IF lzip_writer # None /\ lzip_writer.inner # None
  THEN lzip_writer.inner.some.pieces
  ELSE <<>>

\* C27: the trailer of every member the writer emits has 20 bytes and
\* describes that member only: its CRC-32 is that of exactly the uncompressed
\* bytes of this member, its data size is the number of those bytes, and its
\* member size is 6 + the length of the member's LZMA stream + 20, the
\* member's size in the sink.
C27_TrailerOfMember ==
  /\ Crc32CheckValue
  /\ Framed(CompletedSink)
  /\ \A k \in 1..MemberCount(CompletedSink) :
       LET trailer == MemberTrailer(CompletedSink, k)
           data == MemberData(CompletedSink, k)
           compressed == Len(MemberPayload(CompletedSink, k))
       IN /\ Len(trailer) = 20
          /\ SubSeq(trailer, 1, 4) = Crc32Bytes(data)
          /\ read_u64(trailer, 4) = Len(data)
          /\ read_u64(trailer, 12) = 6 + compressed + 20
          /\ read_u64(trailer, 12) =
               Len(MemberHeader(CompletedSink, k)) + compressed + Len(trailer)

\* C27 witness: the second of two members holds other bytes than the first,
\* and its trailer carries another CRC-32
C27_Witness ==
  /\ LzipFinished
  /\ MemberCount(lzip_test.sink) = 2
  /\ MemberData(lzip_test.sink, 1) # MemberData(lzip_test.sink, 2)
  /\ Len(MemberData(lzip_test.sink, 1)) = Len(MemberData(lzip_test.sink, 2))
  /\ SubSeq(MemberTrailer(lzip_test.sink, 1), 1, 4)
       # SubSeq(MemberTrailer(lzip_test.sink, 2), 1, 4)
(***************************************************************************)
(* Properties of read_exact and write_all                                  *)
(***************************************************************************)

\* the bytes the calls of read or write have reported
RECURSIVE SumOk(_)
SumOk(calls) ==
  IF calls = <<>> THEN 0
  ELSE (IF Head(calls).ok THEN Head(calls).n ELSE 0) + SumOk(Tail(calls))

\* a result that ends the loop: no byte, or an error other than Interrupted
TookNothing(r) == r.ok /\ r.n = 0
HardError(r) == ~r.ok /\ r.err.kind # "Interrupted"

\* the loop has made no call after a result that ends it
StoppedAtOnce(calls) ==
  \A i \in 1..(Len(calls) - 1) : ~TookNothing(calls[i]) /\ ~HardError(calls[i])

LastCall == io_test.calls[Len(io_test.calls)]

\* the result is the error of the kind given
FailedWith(kind) == ~io_test.res.ok /\ io_test.res.err.kind = kind

\* C30, read_exact: Ok only with the buffer filled completely; EOF when the
\* source returns 0 bytes before that; an error other than Interrupted is
\* returned as it is, and no call follows it.  A slice that is too short
\* gives EOF.
ReadExactContract ==
  io_test.pc = "read" =>
    /\ StoppedAtOnce(io_test.calls)
    /\ Len(io_test.buf) = SumOk(io_test.calls)
    /\ io_test.res.ok <=> Len(io_test.buf) = io_test.len
    /\ ~io_test.res.ok => io_test.calls # <<>> /\ Len(io_test.buf) < io_test.len
    /\ (io_test.calls # <<>> /\ TookNothing(LastCall)) => FailedWith("EOF")
    /\ (io_test.calls # <<>> /\ HardError(LastCall)) => io_test.res = LastCall
    /\ io_test.before.kind = "slice" =>
         /\ io_test.res.ok <=> Len(io_test.before.bytes) >= io_test.len
         /\ ~io_test.res.ok => FailedWith("EOF")
         /\ io_test.buf = SubSeq(io_test.before.bytes, 1, Len(io_test.buf))

\* C30, write_all: Ok only with every byte written; WriteZero when the sink
\* takes 0 bytes with bytes left; an error other than Interrupted is
\* returned as it is, and no call follows it.  A slice that is too short has
\* taken the bytes that fitted and gives WriteZero.
WriteAllContract ==
  io_test.pc = "written" =>
    /\ StoppedAtOnce(io_test.calls)
    /\ io_test.this.content = SubSeq(io_test.buf, 1, SumOk(io_test.calls))
    /\ io_test.res.ok <=> io_test.this.content = io_test.buf
    /\ ~io_test.res.ok => io_test.calls # <<>>
    /\ (io_test.calls # <<>> /\ TookNothing(LastCall)) => FailedWith("WriteZero")
    /\ (io_test.calls # <<>> /\ HardError(LastCall)) => io_test.res = LastCall
    /\ io_test.before.kind = "slice" =>
         /\ io_test.res.ok <=> io_test.before.room >= io_test.len
         /\ ~io_test.res.ok =>
              /\ FailedWith("WriteZero")
              /\ io_test.this.content = SubSeq(io_test.buf, 1, io_test.before.room)
    /\ io_test.before.kind = "vec" => io_test.res.ok

\* C30: short sources and short sinks come out as EOF and WriteZero:
\* read_exact returns Ok only when the buffer has been filled completely and
\* EOF when the source returns 0 bytes first; write_all returns Ok only when
\* every byte has been written and WriteZero when the sink takes 0 bytes with
\* bytes left (a full slice reports WriteZero after the bytes that fitted
\* have been copied); an error other than Interrupted is returned at once.
C30_ShortSourceAndSink == ReadExactContract /\ WriteAllContract

\* C30 witness: a slice of two bytes was given three, has taken the first
\* two, and write_all has failed with WriteZero
C30_Witness ==
  /\ io_test.pc = "written"
  /\ io_test.before.kind = "slice"
  /\ io_test.before.room = 2
  /\ io_test.len = 3
  /\ io_test.this.content = IoBytes(2)
  /\ FailedWith("WriteZero")

\* a source was interrupted, gave one byte and then none: EOF
InterruptedThenShort ==
  /\ io_test.pc = "read"
  /\ io_test.calls = <<Err(Error("Interrupted", "", 0)), Ok(1), Ok(0)>>
  /\ FailedWith("EOF")

\* a sink failed after a part had been written: the error came back
SinkFailedHalfway ==
  /\ io_test.pc = "written"
  /\ io_test.calls = <<Ok(1), Err(Error("Other", "", 0))>>
  /\ FailedWith("Other")
\* read_exact or write_all has returned
IoReturned == io_test.pc \in {"read", "written"}

\* a call of read or write has just returned Interrupted to the loop, which
\* goes on
RetriesInterrupted ==
  /\ ~IoReturned
  /\ io_test'.pc = io_test.pc
  /\ io_test'.buf = io_test.buf
  /\ io_test'.calls = Counted(io_test.calls)

\* C31: no routine calls a source or a sink again after it has returned
\* Interrupted, and read_exact and write_all return whatever the source or
\* the sink returns, also when every call returns Interrupted.
C31_NoLoopOnInterrupted ==
  /\ [][~RetriesInterrupted]_vars
  /\ <>IoReturned

\* a source has returned Interrupted to MaxCalls calls of read_exact and is
\* called again
InterruptedForEver ==
  /\ io_test.pc = "read_exact"
  /\ io_test.this = RepeatingSource(Err(Error("Interrupted", "", 0)))
  /\ io_test.calls = MaxCalls
(***************************************************************************)
(* Termination of flush and finish of LZMA2WriterMT                        *)
(***************************************************************************)

\* the caller's thread is inside a call of op
InCall(op) == ctl.op = op /\ ctl.pc \notin {"idle", "dropping", "gone"}

\* C32: every call of flush and of finish of LZMA2WriterMT returns: when a
\* worker has failed, or the workers have exited without the result of a
\* unit dispatched, the call returns an error; it neither waits for ever on
\* the channel of results nor turns in its loop for ever.
C32_FlushAndFinishReturn ==
  /\ InCall("flush") ~> ~InCall("flush")
  /\ InCall("finish") ~> ~InCall("finish")
\* C33: after any calls of write and flush on an LZIPWriter, also calls that
\* returned an error of the sink, exactly one of inner and lzma_writer holds
\* the sink, and header_written is true exactly when lzma_writer is set; no
\* later write, finish or into_inner panics on 'inner writer not set' or
\* 'lzma writer not set'.
C33_SinkHeldInOnePlace ==
  /\ lzip_test.pc # "panicked"
  /\ lzip_test.pc = "write" =>
       /\ (lzip_writer.inner # None) # (lzip_writer.lzma_writer # None)
       /\ lzip_writer.header_written <=> lzip_writer.lzma_writer # None

\* a write has failed on the sink and has left the writer without it
SinkLost ==
  /\ lzip_test.pc = "write"
  /\ ~lzip_test.res.ok
  /\ lzip_writer.inner = None
  /\ lzip_writer.lzma_writer = None

\* a call after a failed one has panicked
PanickedAfterError == lzip_test.pc = "panicked"
\* the chunk signals a dictionary reset
SignalsDictReset(chunk) ==
  \/ chunk.control = 1
  \/ IsLZMA(chunk) /\ reset_level(chunk) = 3

\* the chunks that carry the properties byte
PropsChunks == {k \in 1..Len(Chunks) : Len(Chunks[k].header) = 6}

\* the LZMA chunks
LZMAChunks == {k \in 1..Len(Chunks) : IsLZMA(Chunks[k])}

\* C34: an LZMA2Writer emits no reset that is not required: no chunk but the
\* first signals a dictionary reset; once the stream has an LZMA chunk, the
\* properties byte is carried by exactly one chunk, the first LZMA chunk; an
\* LZMA chunk directly after an LZMA chunk has reset level 00; and in every
\* state dict_reset_needed implies props_needed.
C34_NoNeedlessReset ==
  /\ \A k \in 2..Len(Chunks) : ~SignalsDictReset(Chunks[k])
  /\ PropsChunks = {k \in LZMAChunks : \A j \in LZMAChunks : k <= j}
  /\ \A k \in PropsChunks : CarriesProps(Chunks[k])
  /\ \A k \in 2..Len(Chunks) :
       IsLZMA(Chunks[k]) /\ IsLZMA(Chunks[k - 1]) => reset_level(Chunks[k]) = 0
  /\ lzma2_writer.dict_reset_needed => lzma2_writer.props_needed

\* an uncompressed chunk with the dictionary reset came first, the first LZMA
\* chunk after it with the properties byte, and an LZMA chunk directly after
\* that one
C34_Witness ==
  /\ Len(Chunks) >= 3
  /\ Chunks[1].control = 1
  /\ IsLZMA(Chunks[2]) /\ reset_level(Chunks[2]) = 2 /\ CarriesProps(Chunks[2])
  /\ IsLZMA(Chunks[3]) /\ Len(Chunks[3].header) = 5
  /\ ~lzma2_writer.dict_reset_needed /\ ~lzma2_writer.props_needed
(***************************************************************************)
(* Properties of the expected size of an LZMAWriter                        *)
(***************************************************************************)

\* the last call failed with InvalidInput
RefusedInvalidInput == ~test.res.ok /\ test.res.err.kind = "InvalidInput"

\* the last call was a write that would have taken the total past E
Overshot ==
  /\ test.op = "write"
  /\ get_uncompressed_size(test.before) + test.len > test.expected

\* C35: with an expected size E, a write that would take the total past E
\* fails with InvalidInput and leaves the writer as it was (the counter and
\* the encoder's window included), and any other write is taken; finish
\* fails with InvalidInput and emits nothing unless the total is E; and
\* get_uncompressed_size() <= E in every state.
C35_ExpectedSize ==
  /\ test.op = "write" =>
       IF Overshot
       THEN RefusedInvalidInput /\ lzma_writer = test.before
       ELSE /\ test.res = Ok(test.len)
            /\ get_uncompressed_size(lzma_writer)
                  = get_uncompressed_size(test.before) + test.len
  /\ test.op = "finish" =>
       IF get_uncompressed_size(test.before) = test.expected
       THEN test.res.ok
       ELSE RefusedInvalidInput /\ test.compressed = <<>>
  /\ test.pc = "write" => get_uncompressed_size(lzma_writer) <= test.expected

\* a write was refused with the total below E, a later one filled the total
\* up to E
C35_Witness ==
  /\ test.pc = "write"
  /\ test.op = "write"
  /\ test.res.ok
  /\ test.len > 0
  /\ get_uncompressed_size(lzma_writer) = test.expected
  /\ Len(lzma_writer.lzma.window) = test.expected

\* a write that overshoots by one byte has been refused
WriteRefused == Overshot /\ RefusedInvalidInput /\ test.len = 1

\* finish has been refused one byte short of E
FinishRefused ==
  /\ test.op = "finish"
  /\ RefusedInvalidInput
  /\ get_uncompressed_size(test.before) + 1 = test.expected

(***************************************************************************)
(* Properties of the HC4 match finder                                      *)
(***************************************************************************)

\* what the last call on the HC4 returned
Last == hc4_test.last

\* min(nice_len, avail) of the last call
NiceLenLimit == Min(Last.encoder.nice_len, Last.avail)

\* the tables of an HC4: the three hash tables and the chain
Tables(hc4) ==
  <<hc4.hash.hash2_table, hc4.hash.hash3_table, hc4.hash.hash4_table, hc4.chain>>

\* C36: every match find_matches reports has a distance d with
\* 0 <= d < dict_size (delta = d + 1 below cyclic_size), a length from 2 to
\* min(match_len_max, avail), and comes from an entry that is not the empty
\* entry 0 but a position of the window already passed; with avail = 0 the
\* call reports no match and leaves the hash tables and the chain as they
\* were.
C36_MatchesInWindow ==
  hc4_test.op = "find_matches" =>
    /\ \A k \in 1..Len(Last.matches) :
         LET match == Last.matches[k]
         IN /\ 0 <= match.dist /\ match.dist < hc4_test.dict_size
            /\ match.dist + 1 < Last.hc4.cyclic_size
            /\ MATCH_LEN_MIN <= match.len
            /\ match.len <= Min(Last.encoder.match_len_max, Last.avail)
            /\ Last.hc4.lz_pos - (match.dist + 1) # 0
            /\ match.dist + 1 <= Last.encoder.read_pos
    /\ Last.avail = 0 =>
         /\ Last.matches = <<>>
         /\ Tables(Last.hc4) = Tables(hc4_test.before)

\* a match at the greatest distance, as long as the bytes available allow,
\* was reported
C36_Witness ==
  /\ hc4_test.op = "find_matches"
  /\ \E k \in 1..Len(Last.matches) :
       /\ Last.matches[k].dist = hc4_test.dict_size - 1
       /\ Last.matches[k].len = Last.avail

\* find_matches was called with too few bytes ahead, after positions had
\* been entered in the tables
NoLookahead ==
  /\ hc4_test.op = "find_matches"
  /\ Last.avail = 0
  /\ \E i \in DOMAIN Last.hc4.chain : Last.hc4.chain[i] # 0

DepthLimitReached ==
  /\ hc4_test.op = "find_matches"
  /\ Last.examined = Last.hc4.depth_limit
  /\ Last.matches = <<>>

\* the entry lies inside the window of the finder
InWindow(hc4, entry) == hc4.lz_pos - entry < hc4.cyclic_size

C39_CyclicBounds ==
  hc4_test.pc = "run" =>
    /\ Last.hc4.cyclic_pos \in -1..(Last.hc4.cyclic_size - 1)
    /\ Last.hc4.cyclic_pos = IF Last.encoder.read_pos < 0 THEN -1
                             ELSE Last.encoder.read_pos % Last.hc4.cyclic_size
    /\ DOMAIN Last.hc4.chain = 0..hc4_test.dict_size
    /\ Last.hc4.cyclic_size = hc4_test.dict_size + 1
    /\ Last.indices \subseteq 0..(Last.hc4.cyclic_size - 1)
    /\ ~Last.panic

\* cyclic_pos has wrapped to 0, and the chain walk has read an entry above
\* it and, at the end of the chain array, the entry of the position before
C39_Witness ==
  /\ hc4_test.op = "find_matches"
  /\ Last.encoder.read_pos >= Last.hc4.cyclic_size
  /\ Last.hc4.cyclic_pos = 0
  /\ Last.hc4.cyclic_size - 1 \in Last.indices
  /\ Cardinality(Last.indices) >= 3

(***************************************************************************)
(* Properties of the probability model                                     *)
(***************************************************************************)

\* every probability of the coder is v
AllProbs(v) ==
  /\ \A f \in Tables1(coder_test.kind) :
       \A i \in DOMAIN coder_test.coder[f] : coder_test.coder[f][i] = v
  /\ \A f \in Tables2(coder_test.kind) :
       \A i \in DOMAIN coder_test.coder[f] :
         \A j \in DOMAIN coder_test.coder[f][i] : coder_test.coder[f][i][j] = v

\* the reps are 0 and the state is 0
RepsAndStateZero ==
  coder_test.kind = "LZMACoder" =>
    /\ \A i \in 1..REPS : coder_test.coder.reps[i] = 0
    /\ coder_test.coder.state = 0

\* C40: right after construction and after every reset, every probability of
\* an LZMACoder, of a literal sub-coder and of a length coder (choice, low,
\* mid, high) is 1024, the four reps are 0 and the state is 0.
C40_InitialModel ==
  coder_test.op \in {"new", "reset"} => AllProbs(1024) /\ RepsAndStateZero

\* LengthCoder::new() has returned a coder whose probabilities are all 0
LengthCoderNewAtZero ==
  /\ coder_test.kind = "LengthCoder"
  /\ coder_test.op = "new"
  /\ AllProbs(0)

\* after every reset, and after the construction of an LZMACoder or of a
\* literal sub-coder, every probability is 1024, the reps and the state 0
InitialAfterReset ==
  \/ coder_test.op = "reset"
  \/ coder_test.op = "new" /\ coder_test.kind # "LengthCoder"
  => AllProbs(1024) /\ RepsAndStateZero

\* probabilities and the state of an LZMACoder have moved since its
\* construction or last reset
CoderUsed ==
  /\ coder_test.op = "bit"
  /\ coder_test.kind = "LZMACoder"
  /\ coder_test.coder.state # 0
  /\ ~AllProbs(1024)
====
